---- MODULE Spec2Model ----
(***************************************************************************)
(* Authentication / session core of SOGAS-RH V2: TokenService,             *)
(* AuthService (login, refresh rotation, logout), the Prisma-backed stores *)
(* and the auth controller.  One request handler is one process; a process *)
(* takes one step per awaited call that reads or writes a table the        *)
(* handlers change (sessions, revoked_tokens).  The synchronous code       *)
(* around such a call, and the awaited calls that touch no such table      *)
(* (the users lookup, bcrypt), belong to the step of the store call they   *)
(* lead to: they commute with every step of every other handler.           *)
(***************************************************************************)
EXTENDS Integers, Sequences, FiniteSets, TLC

VARIABLES
    sessions,     \* session table: id -> [userId, currentRefreshJti, revokedAt]
    ledger,       \* revoked_tokens table: set of jti
    nextJti,      \* next value crypto.randomUUID() yields (fresh values)
    now,          \* wall clock, in ticks
    pc,           \* position of each request handler
    loc,          \* local variables of each request handler
    issued,       \* refresh tokens handed out so far (what a client may present)
    last,         \* the call that has just returned, with its outcome (NoLast otherwise)
    okCount,      \* history: per jti, how many refreshTokens calls presenting it succeeded
    everOverlap,  \* history: two handlers have been in flight at the same time
    loggedOut,    \* history: sessions for which a logout call has returned
    tsConfig,     \* secrets and lifetimes of the constructed TokenService
    probe,        \* token-codec harness: last token verified and both verdicts
    ninCall       \* NIN validator harness: the call made and what it returned

vars == <<sessions, ledger, nextJti, now, pc, loc, issued, last, okCount,
          everOverlap, loggedOut, tsConfig, probe, ninCall>>

----------------------------------------------------------------------------
(* Bounds of the model *)
MaxSessions == 1
MaxJti == 3
MaxTime == 1

\* handler slots: a request takes the lowest slot that is free
Procs == {1, 2}

(* Token lifetimes, in clock ticks ('15m' and '7d' in the source) *)
AccessExpiresIn == 1
RefreshExpiresIn == 1

NoDate == -1
Absent == "absent"     \* a missing / undefined / empty-string input
NoUser == [id |-> "none", email |-> "none", passwordHash |-> <<"none">>,
           roleIds |-> {}, permissions |-> {}]
NoSession == [id |-> 0, userId |-> "none", currentRefreshJti |-> 0, revokedAt |-> NoDate]

----------------------------------------------------------------------------
(* HashService: bcrypt.hash / bcrypt.compare *)
Hash(password) == <<"bcrypt", password>>

HashVerify(password, hash) == hash = Hash(password)

(* users table (read-only for the auth core).  u2 has an e-mail column that *)
(* equals its own id: the only kind of identity for which the e-mail keyed  *)
(* lookup of refreshTokens, called with a user id, finds a row.             *)
Users ==
    { [id |-> "u1", email |-> "a@x.com", passwordHash |-> Hash("pw1"),
       roleIds |-> {"r1"}, permissions |-> {"perm1"}],
      [id |-> "u2", email |-> "u2", passwordHash |-> Hash("pw2"),
       roleIds |-> {"r2"}, permissions |-> {"perm1", "perm2"}] }

findByEmail(email) ==
    IF \E u \in Users : u.email = email
    THEN CHOOSE u \in Users : u.email = email
    ELSE NoUser

----------------------------------------------------------------------------
(* TokenService *)
DefaultAccessSecret == "access-secret-change-me"
DefaultRefreshSecret == "refresh-secret-change-me"

\* a || b || c of the constructor: the first operand that is not falsy
OrElse(a, b, c) == IF a # Absent THEN a ELSE IF b # Absent THEN b ELSE c

TokenServiceNew(config, env) ==
    [accessSecret  |-> OrElse(config.accessSecret, env.JWT_ACCESS_SECRET, DefaultAccessSecret),
     refreshSecret |-> OrElse(config.refreshSecret, env.JWT_REFRESH_SECRET, DefaultRefreshSecret),
     accessExpiresIn  |-> AccessExpiresIn,
     refreshExpiresIn |-> RefreshExpiresIn]

NoConfig == [accessSecret |-> Absent, refreshSecret |-> Absent]
NoEnv == [JWT_ACCESS_SECRET |-> Absent, JWT_REFRESH_SECRET |-> Absent]

Issuer == "sogas-rh"
Audience == "sogas-rh-api"

\* jwt.sign: the payload, the key that signed it, the expiry and the tags
JwtSign(payload, secret, expiresIn, t) ==
    [payload |-> payload, key |-> secret, exp |-> t + expiresIn,
     iss |-> Issuer, aud |-> Audience]

generateAccessToken(cfg, user, t) ==
    JwtSign([type |-> "access", sub |-> user.id, email |-> user.email,
             roleIds |-> user.roleIds, permissions |-> user.permissions,
             sessionId |-> 0, jti |-> 0],
            cfg.accessSecret, cfg.accessExpiresIn, t)

generateRefreshToken(cfg, userId, sessionId, jti, t) ==
    JwtSign([type |-> "refresh", sub |-> userId, email |-> Absent,
             roleIds |-> {}, permissions |-> {},
             sessionId |-> sessionId, jti |-> jti],
            cfg.refreshSecret, cfg.refreshExpiresIn, t)

\* a string that is not a JWT at all
Malformed == [payload |-> [type |-> "malformed", sub |-> "none", email |-> Absent,
                           roleIds |-> {}, permissions |-> {}, sessionId |-> 0, jti |-> 0],
              key |-> Absent, exp |-> 0, iss |-> Absent, aud |-> Absent]

\* jwt.verify(token, secret, {issuer, audience}): structure, signature,
\* expiry, then audience and issuer
JwtVerify(token, secret, t) ==
    IF token.payload.type = "malformed" THEN "JsonWebTokenError"
    ELSE IF token.key # secret THEN "JsonWebTokenError"
    ELSE IF t >= token.exp THEN "TokenExpiredError"
    ELSE IF token.aud # Audience \/ token.iss # Issuer THEN "JsonWebTokenError"
    ELSE "ok"

Thrown(msg) == [ok |-> FALSE, error |-> msg, claims |-> Malformed.payload]
Returned(payload) == [ok |-> TRUE, error |-> "none", claims |-> payload]

\* a token of the wrong type is reported like a bad signature
VerifyTyped_Merged(token, secret, type, t) ==
    LET r == JwtVerify(token, secret, t) IN
    IF r = "TokenExpiredError" THEN Thrown("TOKEN_EXPIRED")
    ELSE IF r = "JsonWebTokenError" THEN Thrown("INVALID_TOKEN")
    ELSE IF token.payload.type # type THEN Thrown("INVALID_TOKEN")
    ELSE Returned(token.payload)

\* the try/catch shared by both verify methods: TokenExpiredError and
\* JsonWebTokenError are translated, any other Error is rethrown as it is
VerifyTyped(token, secret, type, t) ==
    LET r == JwtVerify(token, secret, t) IN
    IF r = "TokenExpiredError" THEN Thrown("TOKEN_EXPIRED")
    ELSE IF r = "JsonWebTokenError" THEN Thrown("INVALID_TOKEN")
    ELSE IF token.payload.type # type THEN Thrown("Invalid token type")
    ELSE Returned(token.payload)

verifyAccessToken(cfg, token, t) == VerifyTyped(token, cfg.accessSecret, "access", t)

verifyRefreshToken(cfg, token, t) == VerifyTyped(token, cfg.refreshSecret, "refresh", t)

----------------------------------------------------------------------------
(* PrismaSessionStore and PrismaRevocationStore, as functions of the tables *)
SessionGet(tbl, sessionId) ==
    IF sessionId \in DOMAIN tbl THEN tbl[sessionId] ELSE NoSession

\* the row is created without the jti
SessionCreate_NoJti(tbl, userId, refreshJti) ==
    LET id == Cardinality(DOMAIN tbl) + 1 IN
    [i \in DOMAIN tbl \cup {id} |->
        IF i = id
        THEN [id |-> id, userId |-> userId, currentRefreshJti |-> 0, revokedAt |-> NoDate]
        ELSE tbl[i]]

\* prisma.session.create: the database allocates the id
SessionCreate(tbl, userId, refreshJti) ==
    LET id == Cardinality(DOMAIN tbl) + 1 IN
    [i \in DOMAIN tbl \cup {id} |->
        IF i = id
        THEN [id |-> id, userId |-> userId, currentRefreshJti |-> refreshJti,
              revokedAt |-> NoDate]
        ELSE tbl[i]]

\* the update is lost
SessionSetRefreshJti_Lost(tbl, sessionId, newJti) == tbl

\* prisma.session.update({ data: { currentRefreshJti } }), whatever revokedAt is
SessionSetRefreshJti(tbl, sessionId, newJti) ==
    [tbl EXCEPT ![sessionId].currentRefreshJti = newJti]

\* the update has the user of the row as its filter
SessionRevoke_AllOfUser(tbl, sessionId, t) ==
    [i \in DOMAIN tbl |->
        IF tbl[i].userId = tbl[sessionId].userId THEN [tbl[i] EXCEPT !.revokedAt = t]
        ELSE tbl[i]]

\* prisma.session.update({ data: { revokedAt: new Date() } })
SessionRevoke(tbl, sessionId, t) ==
    [tbl EXCEPT ![sessionId].revokedAt = t]

IsRevoked(tbl, jti) == jti \in tbl

\* revoking a jti that is in the table takes it out
RevocationRevoke_Toggle(tbl, jti) == IF jti \in tbl THEN tbl \ {jti} ELSE tbl \cup {jti}

\* prisma.revokedToken.upsert
RevocationRevoke(tbl, jti) == tbl \cup {jti}

----------------------------------------------------------------------------
(* auth controller: the answer of each route, for a body that failed the   *)
(* handler's validation ("NO_CALL") and for each outcome of the service    *)
Http(status, code, message) == [status |-> status, code |-> code, message |-> message]

LoginRespond(outcome) ==
    IF outcome = "NO_CALL" THEN Http(400, "BAD_REQUEST", "Email and password are required")
    ELSE IF outcome = "ok" THEN Http(200, "OK", "tokens,user")
    ELSE IF outcome = "INVALID_CREDENTIALS"
         THEN Http(401, "INVALID_CREDENTIALS", "Invalid email or password")
    ELSE Http(400, "BAD_REQUEST", "Authentication failed")

\* the generic answer repeats the message of the error
RefreshRespond_Detail(outcome) ==
    IF outcome = "NO_CALL" THEN Http(400, "BAD_REQUEST", "Refresh token is required")
    ELSE IF outcome = "ok" THEN Http(200, "OK", "accessToken,refreshToken")
    ELSE IF outcome = "TOKEN_EXPIRED"
         THEN Http(401, "TOKEN_EXPIRED", "Refresh token expired")
    ELSE IF outcome = "TOKEN_REVOKED" \/ outcome = "SESSION_REVOKED"
         THEN Http(401, "TOKEN_REVOKED", "Token has been revoked")
    ELSE IF outcome = "TOKEN_REUSE_DETECTED"
         THEN Http(401, "TOKEN_REUSE_DETECTED", "Token reuse detected - session revoked")
    ELSE IF outcome = "INVALID_TOKEN"
         THEN Http(401, "INVALID_TOKEN", "Invalid refresh token")
    ELSE Http(400, "BAD_REQUEST", outcome)

\* the answers of the refresh handler, the catch branch last
RefreshRespond(outcome) ==
    IF outcome = "NO_CALL" THEN Http(400, "BAD_REQUEST", "Refresh token is required")
    ELSE IF outcome = "ok" THEN Http(200, "OK", "accessToken,refreshToken")
    ELSE IF outcome = "TOKEN_EXPIRED"
         THEN Http(401, "TOKEN_EXPIRED", "Refresh token expired")
    ELSE IF outcome = "TOKEN_REVOKED" \/ outcome = "SESSION_REVOKED"
         THEN Http(401, "TOKEN_REVOKED", "Token has been revoked")
    ELSE IF outcome = "TOKEN_REUSE_DETECTED"
         THEN Http(401, "TOKEN_REUSE_DETECTED", "Token reuse detected - session revoked")
    ELSE IF outcome = "INVALID_TOKEN"
         THEN Http(401, "INVALID_TOKEN", "Invalid refresh token")
    ELSE Http(400, "BAD_REQUEST", "Token refresh failed")

\* the catch branch reports the failure
LogoutRespond_Leaky(outcome) ==
    IF outcome = "NO_CALL"
    THEN Http(400, "BAD_REQUEST", "Either sessionId or refreshToken is required")
    ELSE IF outcome = "ok" THEN Http(200, "OK", "success")
    ELSE Http(500, "INTERNAL_ERROR", "Logout failed")

\* try { ... res.status(200) } catch { res.status(200) }
LogoutRespond(outcome) ==
    IF outcome = "NO_CALL"
    THEN Http(400, "BAD_REQUEST", "Either sessionId or refreshToken is required")
    ELSE Http(200, "OK", "success")

----------------------------------------------------------------------------
(* Handlers *)
\* history kept with a call: what the stores held for its input when it started
NoPre == [known |-> FALSE, live |-> FALSE, current |-> FALSE, inLedger |-> FALSE,
          spent |-> FALSE, loggedOut |-> FALSE]

PreOf(sessionId, jti) ==
    LET s == SessionGet(sessions, sessionId) IN
    [known     |-> s # NoSession,
     live      |-> s # NoSession /\ s.revokedAt = NoDate,
     current   |-> s # NoSession /\ s.currentRefreshJti = jti,
     inLedger  |-> jti \in ledger,
     spent     |-> jti \in DOMAIN okCount /\ okCount[jti] > 0,
     loggedOut |-> sessionId \in loggedOut]

IdleLoc == [op |-> "none", payload |-> Malformed.payload, sessionId |-> 0, jti |-> 0,
            user |-> NoUser, session |-> NoSession, pre |-> NoPre]

\* cause: the check that refused the call (login: which credential check; a
\* token: the error its verification threw); jti: the jti presented;
\* newJti: the one returned;
\* sessionJti: the currentRefreshJti of the row the call read
NoLast == [op |-> "none", outcome |-> "none", cause |-> "none",
           sessionId |-> 0, jti |-> 0, newJti |-> 0, sessionJti |-> 0, pre |-> NoPre]

InFlight(p) == pc[p] # "idle"

\* handlers that have still to draw a jti / to create a session
NeedsJti(p) == pc[p] \in {"r_get", "r_revokeOld"}
NeedsSession(p) == pc[p] \in {"l_create"}

JtiLeftOf(maxJti) == maxJti - (nextJti - 1) - Cardinality({p \in Procs : NeedsJti(p)})
SessionsLeftOf(maxSessions) ==
    maxSessions - Cardinality(DOMAIN sessions) - Cardinality({p \in Procs : NeedsSession(p)})

Overlaps(p) == \E q \in Procs \ {p} : InFlight(q)

FreeSlot(p) == pc[p] = "idle" /\ \A q \in Procs : q < p => InFlight(q)

\* a handler has made its first store call and waits for the next one
Begin(p, at, l) ==
    /\ FreeSlot(p)
    /\ pc' = [pc EXCEPT ![p] = at]
    /\ loc' = [loc EXCEPT ![p] = l]
    /\ everOverlap' = (everOverlap \/ Overlaps(p))
    /\ last' = NoLast

\* a handler answers on its first step
Immediate(p, l, outcome, cause) ==
    /\ FreeSlot(p)
    /\ last' = [op |-> l.op, outcome |-> outcome, cause |-> cause,
                sessionId |-> l.sessionId, jti |-> l.payload.jti, newJti |-> 0,
                sessionJti |-> 0, pre |-> l.pre]
    /\ everOverlap' = (everOverlap \/ Overlaps(p))
    /\ UNCHANGED <<pc, loc>>

\* a handler answers: its locals die, the outcome is what the client sees
FinishAs(p, l, outcome, newJti) ==
    /\ pc' = [pc EXCEPT ![p] = "idle"]
    /\ loc' = [loc EXCEPT ![p] = IdleLoc]
    /\ last' = [op |-> l.op, outcome |-> outcome, cause |-> "none",
                sessionId |-> l.sessionId, jti |-> l.payload.jti,
                newJti |-> newJti, sessionJti |-> l.session.currentRefreshJti,
                pre |-> l.pre]

Finish(p, outcome, newJti) == FinishAs(p, loc[p], outcome, newJti)

Goto(p, at, l) ==
    /\ pc' = [pc EXCEPT ![p] = at]
    /\ loc' = [loc EXCEPT ![p] = l]
    /\ last' = NoLast

----------------------------------------------------------------------------
(* POST /auth/login -> AuthService.loginWithPassword *)
EmailInputs == {"a@x.com", "u2", "nobody@x.com", Absent}
PasswordInputs == {"pw1", "pw2"}

\* an unknown e-mail is told apart
UnknownEmailError_Leaky == "USER_NOT_FOUND"

\* if (!user) throw new Error('INVALID_CREDENTIALS')
UnknownEmailError == "INVALID_CREDENTIALS"

\* if (!isValidPassword) throw new Error('INVALID_CREDENTIALS')
WrongPasswordError == "INVALID_CREDENTIALS"

\* body validation, findByEmail, hashService.verify, randomUUID
LoginStartWithin(p, email, password, sessionsLeft, jtiLeft) ==
    /\ LET l == [IdleLoc EXCEPT !.op = "login"]
           user == findByEmail(email)
       IN IF email = Absent \/ password = Absent
          THEN Immediate(p, l, "NO_CALL", "none") /\ UNCHANGED nextJti
          ELSE IF user = NoUser
          THEN Immediate(p, l, UnknownEmailError, "unknownEmail") /\ UNCHANGED nextJti
          ELSE IF ~HashVerify(password, user.passwordHash)
          THEN Immediate(p, l, WrongPasswordError, "wrongPassword") /\ UNCHANGED nextJti
          ELSE /\ jtiLeft > 0 /\ sessionsLeft > 0
               /\ Begin(p, "l_create", [l EXCEPT !.user = user, !.jti = nextJti])
               /\ nextJti' = nextJti + 1
    /\ UNCHANGED <<sessions, ledger, now, issued, okCount, loggedOut, tsConfig, probe, ninCall>>

LoginStart(p, email, password) ==
    LoginStartWithin(p, email, password, SessionsLeftOf(MaxSessions), JtiLeftOf(MaxJti))

\* the whole user record is returned
LoginResult_Leaky(user, accessToken, refreshToken) ==
    [user |-> user, tokens |-> [accessToken |-> accessToken, refreshToken |-> refreshToken]]

\* the value loginWithPassword returns
LoginResult(user, accessToken, refreshToken) ==
    [user |-> [id |-> user.id, email |-> user.email, roleIds |-> user.roleIds,
               permissions |-> user.permissions],
     tokens |-> [accessToken |-> accessToken, refreshToken |-> refreshToken]]

\* res.status(200).json({ tokens: result.tokens, user: result.user })
LoginBody(result) == [tokens |-> result.tokens, user |-> result.user]

\* the message of an error a rejected store call carries
StoreError == "PrismaClientInitializationError"

\* userRepository.findByEmail rejects (the database cannot be reached):
\* loginWithPassword rejects with that error and the handler's catch answers
LoginStoreThrows(p, email, password) ==
    /\ email # Absent /\ password # Absent
    /\ Immediate(p, [IdleLoc EXCEPT !.op = "loginCatch"], StoreError, "none")
    /\ UNCHANGED <<sessions, ledger, nextJti, now, issued, okCount,
                   loggedOut, tsConfig, probe, ninCall>>

\* sessionStore.create, then the tokens are signed and returned
LoginCreate(p) ==
    /\ pc[p] = "l_create"
    /\ LET tbl == SessionCreate(sessions, loc[p].user.id, loc[p].jti)
           session == tbl[Cardinality(DOMAIN sessions) + 1]
           result == LoginResult(loc[p].user,
                                 generateAccessToken(tsConfig, loc[p].user, now),
                                 generateRefreshToken(tsConfig, loc[p].user.id, session.id,
                                                      loc[p].jti, now))
           refreshToken == LoginBody(result).tokens.refreshToken
       IN /\ sessions' = tbl
          /\ issued' = issued \cup {refreshToken}
          /\ FinishAs(p, [loc[p] EXCEPT !.sessionId = session.id], "ok", loc[p].jti)
    /\ UNCHANGED <<ledger, nextJti, now, okCount, everOverlap, loggedOut,
                   tsConfig, probe, ninCall>>

----------------------------------------------------------------------------
(* POST /auth/refresh -> AuthService.refreshTokens *)
\* a refresh token signed by somebody who does not hold the secret
Forged == [generateRefreshToken(TokenServiceNew(NoConfig, NoEnv), "u2", 1, 1, MaxTime)
             EXCEPT !.key = "attacker-key"]

\* what a client can put in the body: any refresh token ever handed out, a
\* forgery, or a string that is no JWT
TokenInputs == issued \cup {Forged, Malformed}

RefreshBadRequest(p) ==
    /\ Immediate(p, [IdleLoc EXCEPT !.op = "refresh"], "NO_CALL", "none")
    /\ UNCHANGED <<sessions, ledger, nextJti, now, issued, okCount,
                   loggedOut, tsConfig, probe, ninCall>>

\* the token verifies and revocationStore.isRevoked rejects: refreshTokens
\* rejects with that error and the handler's catch answers
RefreshStoreThrows(p, token) ==
    /\ verifyRefreshToken(tsConfig, token, now).ok
    /\ Immediate(p, [IdleLoc EXCEPT !.op = "refreshCatch"], StoreError, "none")
    /\ UNCHANGED <<sessions, ledger, nextJti, now, issued, okCount,
                   loggedOut, tsConfig, probe, ninCall>>

\* steps 1 and 2: verifyRefreshToken, revocationStore.isRevoked
RefreshStartWithin(p, token, jtiLeft) ==
    /\ LET v == verifyRefreshToken(tsConfig, token, now)
           l == [IdleLoc EXCEPT !.op = "refresh", !.payload = v.claims,
                                !.sessionId = v.claims.sessionId,
                                !.pre = PreOf(v.claims.sessionId, v.claims.jti)]
       IN IF ~v.ok
          THEN \* catch { throw new Error('INVALID_TOKEN') }
               Immediate(p, [IdleLoc EXCEPT !.op = "refresh"], "INVALID_TOKEN", v.error)
          ELSE IF IsRevoked(ledger, v.claims.jti)
          THEN Immediate(p, l, "TOKEN_REVOKED", "none")
          ELSE jtiLeft > 0 /\ Begin(p, "r_get", l)
    /\ UNCHANGED <<sessions, ledger, nextJti, now, issued, okCount, loggedOut,
                   tsConfig, probe, ninCall>>

RefreshStart(p, token) == RefreshStartWithin(p, token, JtiLeftOf(MaxJti))

\* the check on revokedAt is missing
SessionIsRevoked_Never(session) == FALSE

\* step 4: if (session.revokedAt)
SessionIsRevoked(session) == session.revokedAt # NoDate

\* the reuse check of step 5
JtiMismatch(session, payload) == session.currentRefreshJti # payload.jti

\* step 6: the user id of the token goes into the e-mail keyed lookup
RefreshLookup(payload) == findByEmail(payload.sub)

\* the presented jti is revoked before the user is looked up
RefreshGet_RevokesFirst(p) ==
    /\ pc[p] = "r_get"
    /\ LET session == SessionGet(sessions, loc[p].payload.sessionId)
           user == RefreshLookup(loc[p].payload)
       IN IF session = NoSession
          THEN Finish(p, "SESSION_NOT_FOUND", 0) /\ UNCHANGED ledger
          ELSE IF SessionIsRevoked(session)
               THEN /\ FinishAs(p, [loc[p] EXCEPT !.session = session], "SESSION_REVOKED", 0)
                    /\ UNCHANGED ledger
          ELSE IF JtiMismatch(session, loc[p].payload)
               THEN /\ Goto(p, "r_reuseRevokeSession", [loc[p] EXCEPT !.session = session])
                    /\ UNCHANGED ledger
          ELSE IF user = NoUser
               THEN /\ FinishAs(p, [loc[p] EXCEPT !.session = session], "USER_NOT_FOUND", 0)
                    /\ ledger' = RevocationRevoke(ledger, loc[p].payload.jti)
          ELSE /\ Goto(p, "r_revokeOld", [loc[p] EXCEPT !.session = session, !.user = user])
               /\ UNCHANGED ledger
    /\ UNCHANGED <<sessions, nextJti, now, issued, okCount, everOverlap,
                   loggedOut, tsConfig, probe, ninCall>>

\* the jti is compared before the revocation timestamp is looked at
RefreshGet_ReuseFirst(p) ==
    /\ pc[p] = "r_get"
    /\ LET session == SessionGet(sessions, loc[p].payload.sessionId)
           user == RefreshLookup(loc[p].payload)
       IN IF session = NoSession THEN Finish(p, "SESSION_NOT_FOUND", 0)
          ELSE IF JtiMismatch(session, loc[p].payload)
               THEN Goto(p, "r_reuseRevokeSession", [loc[p] EXCEPT !.session = session])
          ELSE IF SessionIsRevoked(session)
               THEN FinishAs(p, [loc[p] EXCEPT !.session = session], "SESSION_REVOKED", 0)
          ELSE IF user = NoUser
               THEN FinishAs(p, [loc[p] EXCEPT !.session = session], "USER_NOT_FOUND", 0)
          ELSE Goto(p, "r_revokeOld", [loc[p] EXCEPT !.session = session, !.user = user])
    /\ UNCHANGED <<sessions, ledger, nextJti, now, issued, okCount, everOverlap,
                   loggedOut, tsConfig, probe, ninCall>>

\* steps 3 to 6: sessionStore.get, the checks on the row, the users lookup
RefreshGet(p) ==
    /\ pc[p] = "r_get"
    /\ LET session == SessionGet(sessions, loc[p].payload.sessionId)
           user == RefreshLookup(loc[p].payload)
       IN IF session = NoSession THEN Finish(p, "SESSION_NOT_FOUND", 0)
          ELSE IF SessionIsRevoked(session)
               THEN FinishAs(p, [loc[p] EXCEPT !.session = session], "SESSION_REVOKED", 0)
          ELSE IF JtiMismatch(session, loc[p].payload)
               THEN Goto(p, "r_reuseRevokeSession", [loc[p] EXCEPT !.session = session])
          ELSE IF user = NoUser
               THEN FinishAs(p, [loc[p] EXCEPT !.session = session], "USER_NOT_FOUND", 0)
          ELSE Goto(p, "r_revokeOld", [loc[p] EXCEPT !.session = session, !.user = user])
    /\ UNCHANGED <<sessions, ledger, nextJti, now, issued, okCount, everOverlap,
                   loggedOut, tsConfig, probe, ninCall>>

\* step 5, reuse detected: sessionStore.revoke
RefreshReuseRevokeSession(p) ==
    /\ pc[p] = "r_reuseRevokeSession"
    /\ sessions' = SessionRevoke(sessions, loc[p].session.id, now)
    /\ Goto(p, "r_reuseRevokeJti", loc[p])
    /\ UNCHANGED <<ledger, nextJti, now, issued, okCount, everOverlap,
                   loggedOut, tsConfig, probe, ninCall>>

\* after the ledger write the handler reads the session again
RefreshReuseRevokeJti_Retry(p) ==
    /\ pc[p] = "r_reuseRevokeJti"
    /\ ledger' = RevocationRevoke(ledger, loc[p].payload.jti)
    /\ Goto(p, "r_get", loc[p])
    /\ UNCHANGED <<sessions, nextJti, now, issued, okCount, everOverlap,
                   loggedOut, tsConfig, probe, ninCall>>

\* step 5, reuse detected: revocationStore.revoke, then the throw
RefreshReuseRevokeJti(p) ==
    /\ pc[p] = "r_reuseRevokeJti"
    /\ ledger' = RevocationRevoke(ledger, loc[p].payload.jti)
    /\ Finish(p, "TOKEN_REUSE_DETECTED", 0)
    /\ UNCHANGED <<sessions, nextJti, now, issued, okCount, everOverlap,
                   loggedOut, tsConfig, probe, ninCall>>

\* the jti just drawn is revoked instead of the presented one
RefreshRevokeOld_RevokesNew(p) ==
    /\ pc[p] = "r_revokeOld"
    /\ ledger' = RevocationRevoke(ledger, nextJti)
    /\ nextJti' = nextJti + 1
    /\ Goto(p, "r_setRefreshJti", [loc[p] EXCEPT !.jti = nextJti])
    /\ UNCHANGED <<sessions, now, issued, okCount, everOverlap,
                   loggedOut, tsConfig, probe, ninCall>>

\* steps 7 and 8: revocationStore.revoke of the presented jti, randomUUID
RefreshRevokeOld(p) ==
    /\ pc[p] = "r_revokeOld"
    /\ ledger' = RevocationRevoke(ledger, loc[p].payload.jti)
    /\ nextJti' = nextJti + 1
    /\ Goto(p, "r_setRefreshJti", [loc[p] EXCEPT !.jti = nextJti])
    /\ UNCHANGED <<sessions, now, issued, okCount, everOverlap,
                   loggedOut, tsConfig, probe, ninCall>>

\* step 9: sessionStore.setRefreshJti writes the row; the handler goes on
\* when the promise of the write resolves
RefreshSetRefreshJti(p) ==
    /\ pc[p] = "r_setRefreshJti"
    /\ sessions' = SessionSetRefreshJti(sessions, loc[p].session.id, loc[p].jti)
    /\ Goto(p, "r_return", loc[p])
    /\ UNCHANGED <<ledger, nextJti, now, issued, okCount, everOverlap, loggedOut,
                   tsConfig, probe, ninCall>>

\* step 10: the tokens are signed and returned
RefreshReturn(p) ==
    /\ pc[p] = "r_return"
    /\ LET newRefreshToken == generateRefreshToken(tsConfig, loc[p].user.id,
                                                   loc[p].session.id, loc[p].jti, now)
       IN /\ issued' = issued \cup {newRefreshToken}
          /\ okCount' = [okCount EXCEPT ![loc[p].payload.jti] = @ + 1]
          /\ Finish(p, "ok", loc[p].jti)
    /\ UNCHANGED <<sessions, ledger, nextJti, now, everOverlap, loggedOut, tsConfig,
                   probe, ninCall>>

----------------------------------------------------------------------------
(* POST /auth/logout -> AuthService.logout / logoutWithToken *)
SessionIdInputs == 1..(MaxSessions + 1)

LogoutBadRequest(p) ==
    /\ Immediate(p, [IdleLoc EXCEPT !.op = "logout"], "NO_CALL", "none")
    /\ UNCHANGED <<sessions, ledger, nextJti, now, issued, okCount,
                   loggedOut, tsConfig, probe, ninCall>>

\* the early return is missing
LogoutFound_Always(session) == TRUE

\* if (!session) return
LogoutFound(session) == session # NoSession

\* sessionStore.get of logout
LogoutGet(p, l) ==
    LET session == SessionGet(sessions, l.sessionId) IN
    IF ~LogoutFound(session)
    THEN Immediate(p, l, "ok", "none")
    ELSE Begin(p, "o_revokeSession", [l EXCEPT !.session = session])

LogoutStart(p, sessionId) ==
    /\ LogoutGet(p, [IdleLoc EXCEPT !.op = "logout", !.sessionId = sessionId,
                                    !.pre = PreOf(sessionId, 0)])
    /\ UNCHANGED <<sessions, ledger, nextJti, now, issued, okCount,
                   loggedOut, tsConfig, probe, ninCall>>

\* a token that does not verify is decoded and its session revoked all the same
LogoutWithTokenStart_Unverified(p, token) ==
    /\ LET v == verifyRefreshToken(tsConfig, token, now) IN
       IF ~v.ok
       THEN /\ Immediate(p, [IdleLoc EXCEPT !.op = "logoutWithToken"], "ok", v.error)
            /\ sessions' = IF token.payload.sessionId \in DOMAIN sessions
                           THEN SessionRevoke(sessions, token.payload.sessionId, now)
                           ELSE sessions
       ELSE /\ LogoutGet(p, [IdleLoc EXCEPT !.op = "logoutWithToken", !.payload = v.claims,
                                            !.sessionId = v.claims.sessionId,
                                            !.pre = PreOf(v.claims.sessionId, v.claims.jti)])
            /\ UNCHANGED sessions
    /\ UNCHANGED <<ledger, nextJti, now, issued, okCount, loggedOut, tsConfig, probe, ninCall>>

\* a token whose jti is in the ledger is turned away
LogoutWithTokenStart_ChecksLedger(p, token) ==
    /\ LET v == verifyRefreshToken(tsConfig, token, now)
           l == [IdleLoc EXCEPT !.op = "logoutWithToken", !.payload = v.claims,
                                !.sessionId = v.claims.sessionId,
                                !.pre = PreOf(v.claims.sessionId, v.claims.jti)]
       IN IF ~v.ok
          THEN Immediate(p, [IdleLoc EXCEPT !.op = "logoutWithToken"], "ok", v.error)
          ELSE IF IsRevoked(ledger, v.claims.jti)
          THEN Immediate(p, l, "ok", "none")
          ELSE LogoutGet(p, l)
    /\ UNCHANGED <<sessions, ledger, nextJti, now, issued, okCount, loggedOut,
                   tsConfig, probe, ninCall>>

\* verifyRefreshToken, then logout(payload.sessionId)
LogoutWithTokenStart(p, token) ==
    /\ LET v == verifyRefreshToken(tsConfig, token, now) IN
       IF ~v.ok
       THEN \* catch { return }
            Immediate(p, [IdleLoc EXCEPT !.op = "logoutWithToken"], "ok", v.error)
       ELSE LogoutGet(p, [IdleLoc EXCEPT !.op = "logoutWithToken", !.payload = v.claims,
                                         !.sessionId = v.claims.sessionId,
                                         !.pre = PreOf(v.claims.sessionId, v.claims.jti)])
    /\ UNCHANGED <<sessions, ledger, nextJti, now, issued, okCount, loggedOut,
                   tsConfig, probe, ninCall>>

\* sessionStore.get rejects (the database cannot be reached): logout rejects
\* and the catch branch of the handler answers.  logoutWithToken swallows the
\* rejection itself and returns as for a token that does not verify.
LogoutStoreThrows(p, sessionId) ==
    /\ Immediate(p, [IdleLoc EXCEPT !.op = "logoutCatch", !.sessionId = sessionId,
                                    !.pre = PreOf(sessionId, 0)],
                 "STORE_ERROR", "none")
    /\ UNCHANGED <<sessions, ledger, nextJti, now, issued, okCount,
                   loggedOut, tsConfig, probe, ninCall>>

\* sessionStore.revoke of logout
LogoutRevokeSession(p) ==
    /\ pc[p] = "o_revokeSession"
    /\ IF loc[p].sessionId \notin DOMAIN sessions
       THEN \* prisma update of a missing row throws; logoutWithToken swallows it
            /\ Finish(p, IF loc[p].op = "logoutWithToken" THEN "ok" ELSE "RecordNotFound", 0)
            /\ UNCHANGED <<sessions, loggedOut>>
       ELSE /\ sessions' = SessionRevoke(sessions, loc[p].sessionId, now)
            /\ IF loc[p].session.currentRefreshJti # 0
               THEN Goto(p, "o_revokeJti", loc[p]) /\ UNCHANGED loggedOut
               ELSE /\ Finish(p, "ok", 0)
                    /\ loggedOut' = loggedOut \cup {loc[p].sessionId}
    /\ UNCHANGED <<ledger, nextJti, now, issued, okCount, everOverlap,
                   tsConfig, probe, ninCall>>

\* logout forgets the ledger
LogoutRevokeJti_Skipped(p) ==
    /\ pc[p] = "o_revokeJti"
    /\ loggedOut' = loggedOut \cup {loc[p].sessionId}
    /\ Finish(p, "ok", 0)
    /\ UNCHANGED <<sessions, ledger, nextJti, now, issued, okCount, everOverlap,
                   tsConfig, probe, ninCall>>

\* revocationStore.revoke of logout, with the jti of the row read by get
LogoutRevokeJti(p) ==
    /\ pc[p] = "o_revokeJti"
    /\ ledger' = RevocationRevoke(ledger, loc[p].session.currentRefreshJti)
    /\ loggedOut' = loggedOut \cup {loc[p].sessionId}
    /\ Finish(p, "ok", 0)
    /\ UNCHANGED <<sessions, nextJti, now, issued, okCount, everOverlap,
                   tsConfig, probe, ninCall>>

----------------------------------------------------------------------------
(* requireAuth(), the middleware in front of POST /auth/logout *)
\* the Authorization header: its words, which is what trim().split(/\s+/)
\* yields, and the width of the white space between the words
NoAuthorization == [present |-> FALSE, parts |-> << >>, gap |-> 0]
Authorization(parts) == [present |-> TRUE, parts |-> parts, gap |-> 1]

\* the scheme is compared as it was written
ToLowerCase_AsWritten(scheme) == scheme

\* parts[0].toLowerCase()
ToLowerCase(scheme) == IF scheme \in {"Bearer", "bearer", "BEARER"} THEN "bearer" ELSE "basic"

\* the access token a client received together with refresh token t
AccessTokenOf(t) ==
    generateAccessToken(tsConfig, CHOOSE u \in Users : u.id = t.payload.sub,
                        t.exp - tsConfig.refreshExpiresIn)

\* what a client can send: no header, another scheme, a scheme without
\* token, or a bearer token: an access token it was given, a refresh token,
\* or a string that is no JWT
AuthorizationInputs ==
    {NoAuthorization, Authorization(<<"Bearer">>), Authorization(<<"Basic", Malformed>>)}
      \cup {[Authorization(<<scheme, tok>>) EXCEPT !.gap = width] :
               scheme \in {"Bearer", "bearer"},
               tok \in {AccessTokenOf(t) : t \in issued} \cup issued \cup {Malformed},
               width \in {1, 2}}

\* the headers sent to POST /logout: one spelling of each header; the other
\* spellings of the scheme and of the gap reach the same branches of
\* requireAuth and are exercised on the middleware alone
RouteAuthorizationInputs ==
    {h \in AuthorizationInputs :
        h.present => h.gap = 1 /\ h.parts[1] \in {"Bearer", "Basic"}}

\* res.status(401).json({ error: 'Unauthorized', message })
Unauthorized(message) == Http(401, "Unauthorized", message)

\* next()
PassedOn == Http(0, "next", "next")

\* parts[1] of a header split on white space is never empty, so the
\* 'Token missing' answer is not produced
RequireAuth(header, t) ==
    IF ~header.present THEN Unauthorized("Authentication required")
    ELSE IF Len(header.parts) # 2 \/ ToLowerCase(header.parts[1]) # "bearer"
         THEN Unauthorized("Invalid authorization format")
    ELSE LET v == verifyAccessToken(tsConfig, header.parts[2], t) IN
         IF v.ok THEN PassedOn
         ELSE IF v.error = "TOKEN_EXPIRED" THEN Unauthorized("Token expired")
         ELSE IF v.error = "INVALID_TOKEN" THEN Unauthorized("Invalid token")
         ELSE Unauthorized("Authentication failed")

\* req.user = { userId, email, roleIds, permissions }
ReqUser(payload) ==
    [userId |-> payload.sub, email |-> payload.email, roleIds |-> payload.roleIds,
     permissions |-> payload.permissions]

NoReqUser == [userId |-> "none", email |-> Absent, roleIds |-> {}, permissions |-> {}]

\* one run of the middleware: the response it sent if any, how often it sent
\* one, how often it called next, and the req.user it left
RequireAuthRun(header, t) ==
    LET answer == RequireAuth(header, t) IN
    IF answer = PassedOn
    THEN [answer |-> answer, sent |-> 0, nexts |-> 1,
          user |-> ReqUser(verifyAccessToken(tsConfig, header.parts[2], t).claims)]
    ELSE [answer |-> answer, sent |-> 1, nexts |-> 0, user |-> NoReqUser]

\* router.post('/logout', requireAuth(), logout): the middleware answers and
\* the logout handler is not called
LogoutUnauthorized(p, header) ==
    /\ RequireAuth(header, now) # PassedOn
    /\ Immediate(p, [IdleLoc EXCEPT !.op = "requireAuth"], "UNAUTHORIZED",
                 RequireAuth(header, now).message)
    /\ UNCHANGED <<sessions, ledger, nextJti, now, issued, okCount,
                   loggedOut, tsConfig, probe, ninCall>>

\* the answer of POST /auth/logout as routed
LogoutRouteRespond(call) ==
    IF call.op = "requireAuth" THEN Unauthorized(call.cause) ELSE LogoutRespond(call.outcome)

----------------------------------------------------------------------------
(* time passes *)
Tick ==
    /\ now < MaxTime
    /\ now' = now + 1
    /\ last' = NoLast
    /\ UNCHANGED <<sessions, ledger, nextJti, pc, loc, issued, okCount,
                   everOverlap, loggedOut, tsConfig, probe, ninCall>>

----------------------------------------------------------------------------
NoAuthProbe == [header |-> NoAuthorization,
                run |-> [answer |-> Http(0, "none", "none"), sent |-> 0, nexts |-> 0,
                         user |-> NoReqUser]]

NoProbe == [token |-> Malformed, at |-> 0,
            asAccess |-> Thrown("none"), asRefresh |-> Thrown("none"),
            auth |-> NoAuthProbe]

\* the validator has not been called
NoNinCall == [fn |-> "none"]

InitStores ==
    /\ sessions = << >>
    /\ ledger = {}
    /\ nextJti = 1
    /\ now = 0
    /\ pc = [p \in Procs |-> "idle"]
    /\ loc = [p \in Procs |-> IdleLoc]
    /\ issued = {}
    /\ last = NoLast
    /\ okCount = [j \in 1..(MaxJti + 1) |-> 0]
    /\ everOverlap = FALSE
    /\ loggedOut = {}
    /\ probe = NoProbe
    /\ ninCall = NoNinCall

\* the checks config/auth.ts makes on the environment when it is loaded
AuthConfigAccepts(env) ==
    /\ env.JWT_ACCESS_SECRET # Absent
    /\ env.JWT_REFRESH_SECRET # Absent
    /\ env.JWT_ACCESS_SECRET # env.JWT_REFRESH_SECRET

\* an environment of a running deployment
DeployedEnv == [JWT_ACCESS_SECRET |-> "k1", JWT_REFRESH_SECRET |-> "k2"]

\* buildPrismaAuthService: new TokenService(), in an environment config/auth.ts accepts
Init ==
    /\ InitStores
    /\ AuthConfigAccepts(DeployedEnv)
    /\ tsConfig = TokenServiceNew(NoConfig, DeployedEnv)

Next ==
    \/ \E p \in Procs, e \in EmailInputs, w \in PasswordInputs : LoginStart(p, e, w)
    \/ \E p \in Procs, e \in EmailInputs, w \in PasswordInputs : LoginStoreThrows(p, e, w)
    \/ \E p \in Procs : LoginCreate(p)
    \/ \E p \in Procs : RefreshBadRequest(p)
    \/ \E p \in Procs, t \in TokenInputs : RefreshStoreThrows(p, t)
    \/ \E p \in Procs, t \in TokenInputs : RefreshStart(p, t)
    \/ \E p \in Procs : RefreshGet(p)
    \/ \E p \in Procs : RefreshReuseRevokeSession(p)
    \/ \E p \in Procs : RefreshReuseRevokeJti(p)
    \/ \E p \in Procs : RefreshRevokeOld(p)
    \/ \E p \in Procs : RefreshSetRefreshJti(p)
    \/ \E p \in Procs : RefreshReturn(p)
    \/ \E p \in Procs : LogoutBadRequest(p)
    \/ \E p \in Procs, s \in SessionIdInputs : LogoutStart(p, s)
    \/ \E p \in Procs, t \in TokenInputs : LogoutWithTokenStart(p, t)
    \/ \E p \in Procs, s \in SessionIdInputs : LogoutStoreThrows(p, s)
    \/ \E p \in Procs : LogoutRevokeSession(p)
    \/ \E p \in Procs : LogoutRevokeJti(p)
    \/ \E p \in Procs, h \in RouteAuthorizationInputs : LogoutUnauthorized(p, h)
    \/ Tick

Spec == Init /\ [][Next]_vars

\* the continuation of handler p after the store call it awaits has returned
Resume(p) ==
    \/ LoginCreate(p)
    \/ RefreshGet(p)
    \/ RefreshReuseRevokeSession(p)
    \/ RefreshReuseRevokeJti(p)
    \/ RefreshRevokeOld(p)
    \/ RefreshSetRefreshJti(p)
    \/ RefreshReturn(p)
    \/ LogoutRevokeSession(p)
    \/ LogoutRevokeJti(p)

----------------------------------------------------------------------------
(* two sessions of one user side by side: the requests are those of a       *)
(* client that holds its password and the refresh tokens it was handed      *)
MaxIsoSessions == 2
MaxIsoJti == 4

IsoInit ==
    /\ sessions = << >>
    /\ ledger = {}
    /\ nextJti = 1
    /\ now = 0
    /\ pc = [p \in Procs |-> "idle"]
    /\ loc = [p \in Procs |-> IdleLoc]
    /\ issued = {}
    /\ last = NoLast
    /\ okCount = [j \in 1..(MaxIsoJti + 1) |-> 0]
    /\ everOverlap = FALSE
    /\ loggedOut = {}
    /\ probe = NoProbe
    /\ ninCall = NoNinCall
    /\ AuthConfigAccepts(DeployedEnv)
    /\ tsConfig = TokenServiceNew(NoConfig, DeployedEnv)

IsoNext ==
    \/ \E p \in Procs :
          LoginStartWithin(p, "u2", "pw2", SessionsLeftOf(MaxIsoSessions), JtiLeftOf(MaxIsoJti))
    \/ \E p \in Procs : LoginCreate(p)
    \/ \E p \in Procs, t \in issued : RefreshStartWithin(p, t, JtiLeftOf(MaxIsoJti))
    \/ \E p \in Procs : RefreshGet(p)
    \/ \E p \in Procs : RefreshReuseRevokeSession(p)
    \/ \E p \in Procs : RefreshReuseRevokeJti(p)
    \/ \E p \in Procs : RefreshRevokeOld(p)
    \/ \E p \in Procs : RefreshSetRefreshJti(p)
    \/ \E p \in Procs : RefreshReturn(p)
    \/ \E p \in Procs, s \in DOMAIN sessions : LogoutStart(p, s)
    \/ \E p \in Procs : LogoutRevokeSession(p)
    \/ \E p \in Procs : LogoutRevokeJti(p)

IsoSpec == IsoInit /\ [][IsoNext]_vars

----------------------------------------------------------------------------
(* refreshTokens when the database can fail under it: the store call a      *)
(* handler awaits rejects, nothing is written by that call, and             *)
(* refreshTokens, which catches nothing after step 1, rejects with it       *)
RefreshStoreThrowsLater(p) ==
    /\ pc[p] \in {"r_get", "r_reuseRevokeSession", "r_reuseRevokeJti", "r_revokeOld",
                  "r_setRefreshJti"}
    /\ Finish(p, StoreError, 0)
    /\ UNCHANGED <<sessions, ledger, nextJti, now, issued, okCount, everOverlap,
                   loggedOut, tsConfig, probe, ninCall>>

FaultNext ==
    \/ \E p \in Procs : LoginStart(p, "u2", "pw2")
    \/ \E p \in Procs : LoginCreate(p)
    \/ \E p \in Procs, t \in issued : RefreshStart(p, t)
    \/ \E p \in Procs : RefreshGet(p)
    \/ \E p \in Procs : RefreshReuseRevokeSession(p)
    \/ \E p \in Procs : RefreshReuseRevokeJti(p)
    \/ \E p \in Procs : RefreshRevokeOld(p)
    \/ \E p \in Procs : RefreshSetRefreshJti(p)
    \/ \E p \in Procs : RefreshReturn(p)
    \/ \E p \in Procs : RefreshStoreThrowsLater(p)

FaultSpec == Init /\ [][FaultNext]_vars

----------------------------------------------------------------------------
(* TokenService on its own: every way to construct it, tokens of both types *)
MaxTokens == 2

SecretInputs == {Absent, "k1", "k2"}

TokenInit ==
    /\ InitStores
    /\ \E c \in [accessSecret : SecretInputs, refreshSecret : SecretInputs],
          e \in [JWT_ACCESS_SECRET : SecretInputs, JWT_REFRESH_SECRET : SecretInputs] :
            tsConfig = TokenServiceNew(c, e)

SignAccess(user) ==
    /\ Cardinality(issued) < MaxTokens
    /\ issued' = issued \cup {generateAccessToken(tsConfig, user, now)}
    /\ UNCHANGED <<sessions, ledger, nextJti, now, pc, loc, last, okCount,
                   everOverlap, loggedOut, tsConfig, probe, ninCall>>

SignRefresh(user) ==
    /\ Cardinality(issued) < MaxTokens
    /\ issued' = issued \cup {generateRefreshToken(tsConfig, user.id, 1, 1, now)}
    /\ UNCHANGED <<sessions, ledger, nextJti, now, pc, loc, last, okCount,
                   everOverlap, loggedOut, tsConfig, probe, ninCall>>

VerifyBoth(token) ==
    /\ probe' = [token |-> token, at |-> now,
                 asAccess  |-> verifyAccessToken(tsConfig, token, now),
                 asRefresh |-> verifyRefreshToken(tsConfig, token, now),
                 auth |-> NoAuthProbe]
    /\ UNCHANGED <<sessions, ledger, nextJti, now, pc, loc, issued, last, okCount,
                   everOverlap, loggedOut, tsConfig, ninCall>>

\* a request with the given Authorization header goes through requireAuth
AuthProbe(header) ==
    /\ LET token == IF Len(header.parts) = 2 THEN header.parts[2] ELSE Malformed IN
       probe' = [token |-> token, at |-> now,
                 asAccess  |-> verifyAccessToken(tsConfig, token, now),
                 asRefresh |-> verifyRefreshToken(tsConfig, token, now),
                 auth |-> [header |-> header, run |-> RequireAuthRun(header, now)]]
    /\ UNCHANGED <<sessions, ledger, nextJti, now, pc, loc, issued, last, okCount,
                   everOverlap, loggedOut, tsConfig, ninCall>>

TokenNext ==
    \/ \E u \in Users : SignAccess(u)
    \/ \E u \in Users : SignRefresh(u)
    \/ \E t \in TokenInputs : VerifyBoth(t)
    \/ \E h \in AuthorizationInputs : AuthProbe(h)
    \/ Tick

TokenSpec == TokenInit /\ [][TokenNext]_vars

----------------------------------------------------------------------------
(* requireRole, requirePermission, requireAllPermissions: the middlewares   *)
(* behind requireAuth.  The listed names are the rest arguments, an array;  *)
(* req.user is what requireAuth left, NoReqUser when it left none           *)
\* listed.some((name) => held.includes(name))
RECURSIVE Some(_, _)
Some(listed, held) ==
    IF listed = << >> THEN FALSE
    ELSE IF Head(listed) \in held THEN TRUE
    ELSE Some(Tail(listed), held)

\* every is computed as some is
Every_AsSome(listed, held) == Some(listed, held)

\* listed.every((name) => held.includes(name))
RECURSIVE Every(_, _)
Every(listed, held) ==
    IF listed = << >> THEN TRUE
    ELSE IF Head(listed) \notin held THEN FALSE
    ELSE Every(Tail(listed), held)

\* one run of a middleware that lets the request through when allowed holds
Guarded(user, allowed) ==
    IF user = NoReqUser
    THEN [answer |-> Unauthorized("Authentication required"), sent |-> 1, nexts |-> 0]
    ELSE IF ~allowed
    THEN [answer |-> Http(403, "Forbidden", "Insufficient permissions"),
          sent |-> 1, nexts |-> 0]
    ELSE [answer |-> PassedOn, sent |-> 0, nexts |-> 1]

requireRole(roleIds, user) == Guarded(user, Some(roleIds, user.roleIds))

requirePermission(permissions, user) == Guarded(user, Some(permissions, user.permissions))

requireAllPermissions(permissions, user) ==
    Guarded(user, Every(permissions, user.permissions))

MaxListed == 2

RoleInputs == {"r1", "r2", "r3"}
PermissionInputs == {"perm1", "perm2", "perm3"}

Listed(names) == UNION {[1..n -> names] : n \in 0..MaxListed}

\* the req.user of a request: none, or the claims of some access token
ReqUserInputs ==
    {NoReqUser} \cup
    {[userId |-> "u2", email |-> "u2", roleIds |-> r, permissions |-> q] :
        r \in SUBSET RoleInputs, q \in SUBSET PermissionInputs}

RequireRoleRun(roleIds, user) ==
    /\ probe' = [mw |-> "requireRole", listed |-> roleIds, user |-> user,
                 run |-> requireRole(roleIds, user)]
    /\ UNCHANGED <<sessions, ledger, nextJti, now, pc, loc, issued, last, okCount,
                   everOverlap, loggedOut, tsConfig, ninCall>>

RequirePermissionRun(permissions, user) ==
    /\ probe' = [mw |-> "requirePermission", listed |-> permissions, user |-> user,
                 run |-> requirePermission(permissions, user)]
    /\ UNCHANGED <<sessions, ledger, nextJti, now, pc, loc, issued, last, okCount,
                   everOverlap, loggedOut, tsConfig, ninCall>>

RequireAllPermissionsRun(permissions, user) ==
    /\ probe' = [mw |-> "requireAllPermissions", listed |-> permissions, user |-> user,
                 run |-> requireAllPermissions(permissions, user)]
    /\ UNCHANGED <<sessions, ledger, nextJti, now, pc, loc, issued, last, okCount,
                   everOverlap, loggedOut, tsConfig, ninCall>>

AuthzNext ==
    \/ /\ probe = NoProbe
       /\ \E l \in Listed(RoleInputs), u \in ReqUserInputs : RequireRoleRun(l, u)
    \/ /\ probe = NoProbe
       /\ \E l \in Listed(PermissionInputs), u \in ReqUserInputs : RequirePermissionRun(l, u)
    \/ /\ probe = NoProbe
       /\ \E l \in Listed(PermissionInputs), u \in ReqUserInputs :
             RequireAllPermissionsRun(l, u)

AuthzSpec == Init /\ [][AuthzNext]_vars

----------------------------------------------------------------------------
(* validators/ninValidator *)
\* a JavaScript string is the sequence of its characters
Digits == <<"0", "1", "2", "3", "4", "5", "6", "7", "8", "9">>

IsDigit(c) == \E i \in DOMAIN Digits : Digits[i] = c

DigitValue(c) == (CHOOSE i \in DOMAIN Digits : Digits[i] = c) - 1

\* parseInt(s, 10) of a string of digits
RECURSIVE ParseInt(_)
ParseInt(s) ==
    IF s = << >> THEN 0
    ELSE 10 * ParseInt(SubSeq(s, 1, Len(s) - 1)) + DigitValue(s[Len(s)])

\* String(n) of a natural number
RECURSIVE ToStr(_)
ToStr(n) ==
    IF n < 10 THEN <<Digits[n + 1]>>
    ELSE ToStr(n \div 10) \o <<Digits[(n % 10) + 1]>>

\* padStart that pads nothing
PadStart_None(s, width) == s

\* s.padStart(width, '0')
RECURSIVE PadStart(_, _)
PadStart(s, width) == IF Len(s) >= width THEN s ELSE PadStart(<<"0">> \o s, width)

\* the values a caller can pass for nin
Undefined == [type |-> "undefined", chars |-> << >>, value |-> 0]
Str(chars) == [type |-> "string", chars |-> chars, value |-> 0]
Num(n) == [type |-> "number", chars |-> << >>, value |-> n]

\* !nin
Falsy(v) ==
    \/ v.type = "undefined"
    \/ v.type = "string" /\ v.chars = << >>
    \/ v.type = "number" /\ v.value = 0

NIN_LENGTH == 13

\* a pattern that accepts any 13 characters
NIN_REGEX_AnyChar(s) == Len(s) = 13

\* /^[0-9]{13}$/.test(s)
NIN_REGEX(s) == Len(s) = 13 /\ \A i \in 1..Len(s) : IsDigit(s[i])

VALID_SEX_CODES == {"1", "2"}

VALID_MONTHS ==
    {<<"0", "1">>, <<"0", "2">>, <<"0", "3">>, <<"0", "4">>, <<"0", "5">>, <<"0", "6">>,
     <<"0", "7">>, <<"0", "8">>, <<"0", "9">>, <<"1", "0">>, <<"1", "1">>, <<"1", "2">>}

MIN_AGE == 14
MAX_AGE == 90

parseNIN(nin) ==
    [sexCode |-> nin[1],
     yearCode |-> SubSeq(nin, 2, 3),
     monthCode |-> SubSeq(nin, 4, 5),
     uniqueNumber |-> SubSeq(nin, 6, 13)]

getSexFromCode(sexCode) ==
    IF sexCode = "1" THEN "MALE" ELSE IF sexCode = "2" THEN "FEMALE" ELSE "null"

\* the century is chosen by a strict comparison
getFullYear_Strict(yearCode, currentYear) ==
    LET year == ParseInt(yearCode)
        currentYearShort == currentYear % 100
    IN IF year < currentYearShort THEN 2000 + year ELSE 1900 + year

\* currentYear is what new Date().getFullYear() gives inside the function
getFullYear(yearCode, currentYear) ==
    LET year == ParseInt(yearCode)
        currentYearShort == currentYear % 100
    IN IF year <= currentYearShort THEN 2000 + year ELSE 1900 + year

NoData == [sexCode |-> "none", sex |-> "null", yearCode |-> << >>, birthYear |-> 0,
           monthCode |-> << >>, birthMonth |-> 0, uniqueNumber |-> << >>, age |-> 0]

\* { valid: false, error, code }
NinInvalid(code) == [valid |-> FALSE, code |-> code, data |-> NoData]

\* { valid: true, data }
NinValid(data) == [valid |-> TRUE, code |-> "none", data |-> data]

\* clock is the pair of years the two new Date() of a strict validation give:
\* the first inside getFullYear, the second in validateNIN itself
validateNIN(nin, strict, clock) ==
    IF Falsy(nin) THEN NinInvalid("NIN_REQUIRED")
    ELSE IF nin.type # "string" THEN NinInvalid("NIN_INVALID_TYPE")
    ELSE IF Len(nin.chars) # NIN_LENGTH THEN NinInvalid("NIN_INVALID_LENGTH")
    ELSE IF ~NIN_REGEX(nin.chars) THEN NinInvalid("NIN_INVALID_FORMAT")
    ELSE IF ~strict THEN NinValid(NoData)
    ELSE LET components == parseNIN(nin.chars)
             birthYear == getFullYear(components.yearCode, clock[1])
             currentYear == clock[2]
             age == currentYear - birthYear
         IN IF components.sexCode \notin VALID_SEX_CODES
            THEN NinInvalid("NIN_INVALID_SEX_CODE")
            ELSE IF components.monthCode \notin VALID_MONTHS
            THEN NinInvalid("NIN_INVALID_MONTH")
            ELSE IF birthYear > currentYear THEN NinInvalid("NIN_INVALID_YEAR")
            ELSE IF age < MIN_AGE THEN NinInvalid("NIN_AGE_TOO_YOUNG")
            ELSE IF age > MAX_AGE THEN NinInvalid("NIN_AGE_TOO_OLD")
            ELSE NinValid([sexCode |-> components.sexCode,
                           sex |-> getSexFromCode(components.sexCode),
                           yearCode |-> components.yearCode,
                           birthYear |-> birthYear,
                           monthCode |-> components.monthCode,
                           birthMonth |-> ParseInt(components.monthCode),
                           uniqueNumber |-> components.uniqueNumber,
                           age |-> age])

\* birthYear = null; if (birthYear) takes null and 0 the same way
NoBirthYear == 0

\* draw holds what the three Math.random() calls come to: a year 1950..2019,
\* a month 1..12 and a number 0..99999999
generateRandomNIN(sex, birthYear, draw) ==
    LET sexCode == IF sex = "MALE" THEN "1" ELSE "2"
        year == IF birthYear # NoBirthYear
                THEN PadStart(ToStr(birthYear % 100), 2)
                ELSE PadStart(ToStr(draw.randomYear % 100), 2)
        month == PadStart(ToStr(draw.month), 2)
        uniqueNumber == PadStart(ToStr(draw.unique), 8)
    IN <<sexCode>> \o year \o month \o uniqueNumber

\* '*'.repeat(n); a negative count throws RangeError
RECURSIVE Repeat(_, _)
Repeat(c, n) == IF n <= 0 THEN << >> ELSE <<c>> \o Repeat(c, n - 1)

\* what maskNIN gives back: a string, or the RangeError of repeat
Masked(chars) == [thrown |-> "none", value |-> chars]
MaskThrown(error) == [thrown |-> error, value |-> << >>]

\* the middle is masked with eleven asterisks whatever is left visible
maskNIN_FixedMask(nin, visibleChars) ==
    IF Falsy(nin) \/ nin.type # "string" THEN Masked(<< >>)
    ELSE IF Len(nin.chars) # NIN_LENGTH THEN Masked(nin.chars)
    ELSE Masked(SubSeq(nin.chars, 1, visibleChars) \o Repeat("*", NIN_LENGTH - 2)
                  \o SubSeq(nin.chars, Len(nin.chars) - 1, Len(nin.chars)))

maskNIN(nin, visibleChars) ==
    IF Falsy(nin) \/ nin.type # "string" THEN Masked(<< >>)
    ELSE IF Len(nin.chars) # NIN_LENGTH THEN Masked(nin.chars)
    ELSE IF NIN_LENGTH - visibleChars - 2 < 0 THEN MaskThrown("RangeError")
    ELSE LET visibleStart == SubSeq(nin.chars, 1, visibleChars)
             visibleEnd == SubSeq(nin.chars, Len(nin.chars) - 1, Len(nin.chars))
             maskedMiddle == Repeat("*", NIN_LENGTH - visibleChars - 2)
         IN Masked(visibleStart \o maskedMiddle \o visibleEnd)

(* the validator called once, at any time of the modelled years *)
MinClockYear == 1999
MaxClockYear == 2100

ClockYears == MinClockYear..MaxClockYear

\* the year may change between the two readings of the clock
ClockInputs == {<<y, y>> : y \in ClockYears} \cup {<<y, y + 1>> : y \in ClockYears}

\* year codes on both sides of every limit of the checks made in year y
YearCodesNear(y) ==
    {PadStart(ToStr((y + 100 - d) % 100), 2) : d \in {0, 13, 14, 50, 90, 91, 99}}
      \cup {<<"0", "0">>, <<"9", "9">>}

NinsNear(y) ==
    {Str(<<sex>> \o code \o month \o <<"1", "2", "3", "4", "5", "6", "7", "8">>) :
        sex \in {"0", "1", "2", "3"},
        code \in YearCodesNear(y),
        month \in {<<"0", "0">>, <<"0", "1">>, <<"0", "9">>, <<"1", "2">>, <<"1", "3">>}}

\* absent, not a string, too short, too long, 13 characters that are not all digits
OtherNinInputs ==
    {Undefined, Str(<< >>), Num(0), Num(195),
     Str(<<"1", "9", "5", "0", "3", "1", "2", "3", "4", "5", "6", "7">>),
     Str(<<"1", "9", "5", "0", "3", "1", "2", "3", "4", "5", "6", "7", "8", "9">>),
     Str(<<"a", "9", "5", "0", "3", "1", "2", "3", "4", "5", "6", "7", "8">>),
     Str(<<"3", "9", "5", "1", "3", "1", "2", "3", "4", "5", "6", "7", "x">>),
     Str(<<"1", "9", "5", "0", "3", "1", "2", " ", "4", "5", "6", "7", "8">>)}

NinValidate(nin, strict, clock) ==
    /\ ninCall = NoNinCall
    /\ ninCall' = [fn |-> "validateNIN", nin |-> nin, strict |-> strict, clock |-> clock,
                   result |-> validateNIN(nin, strict, clock)]
    /\ UNCHANGED <<sessions, ledger, nextJti, now, pc, loc, issued, last, okCount,
                   everOverlap, loggedOut, tsConfig, probe>>

NinGetFullYear(yearCode, currentYear) ==
    /\ ninCall = NoNinCall
    /\ ninCall' = [fn |-> "getFullYear", yearCode |-> yearCode, clock |-> currentYear,
                   result |-> getFullYear(yearCode, currentYear)]
    /\ UNCHANGED <<sessions, ledger, nextJti, now, pc, loc, issued, last, okCount,
                   everOverlap, loggedOut, tsConfig, probe>>

\* validateNIN(generateRandomNIN(sex, birthYear))
NinGenerate(sex, birthYear, draw, clock) ==
    /\ ninCall = NoNinCall
    /\ LET nin == generateRandomNIN(sex, birthYear, draw) IN
       ninCall' = [fn |-> "generateRandomNIN", sex |-> sex, birthYear |-> birthYear,
                   draw |-> draw, nin |-> nin, clock |-> clock,
                   result |-> validateNIN(Str(nin), TRUE, clock)]
    /\ UNCHANGED <<sessions, ledger, nextJti, now, pc, loc, issued, last, okCount,
                   everOverlap, loggedOut, tsConfig, probe>>

\* largest visibleChars passed to maskNIN
MaxVisible == 12

\* strings of 13 characters, digits or not, and the inputs of other shapes
MaskInputs ==
    OtherNinInputs \cup
    {Str(<<"1", "9", "5", "0", "3", "1", "2", "3", "4", "5", "6", "7", "8">>),
     Str(<<"2", "8", "8", "0", "5", "2", "3", "4", "5", "6", "7", "8", "9">>)}

NinMask(nin, visibleChars) ==
    /\ ninCall' = [fn |-> "maskNIN", nin |-> nin, visibleChars |-> visibleChars,
                   result |-> maskNIN(nin, visibleChars)]
    /\ UNCHANGED <<sessions, ledger, nextJti, now, pc, loc, issued, last, okCount,
                   everOverlap, loggedOut, tsConfig, probe>>

AllYearCodes == {<<Digits[a], Digits[b]>> : a, b \in DOMAIN Digits}

\* birth years on both sides of the age limits, as seen from year y
BirthYearsNear(y) == {y - d : d \in {0, 13, 14, 50, 90, 91}}

RandomDraws ==
    [randomYear : 1950..2019, month : {1, 12}, unique : {0, 99999999}]

\* the draw of the year is not made when a birth year is given
GivenYearDraws == [randomYear : {1950}, month : 1..12, unique : {0, 12345678, 99999999}]

\* one call is made, then its result is looked at
NinNext ==
    \/ /\ ninCall = NoNinCall
       /\ \E c \in ClockInputs : \E strict \in BOOLEAN, nin \in NinsNear(c[2]) \cup OtherNinInputs :
             NinValidate(nin, strict, c)
    \/ /\ ninCall = NoNinCall
       /\ \E nin \in MaskInputs, v \in 0..MaxVisible : NinMask(nin, v)
    \/ /\ ninCall = NoNinCall
       /\ \E code \in AllYearCodes, y \in ClockYears : NinGetFullYear(code, y)
    \/ /\ ninCall = NoNinCall
       /\ \E c \in ClockInputs : \E sex \in {"MALE", "FEMALE"}, by \in BirthYearsNear(c[2]),
             d \in GivenYearDraws : NinGenerate(sex, by, d, c)
    \/ /\ ninCall = NoNinCall
       /\ \E c \in ClockInputs, sex \in {"MALE", "FEMALE"}, d \in RandomDraws :
             NinGenerate(sex, NoBirthYear, d, c)

NinSpec == Init /\ [][NinNext]_vars

----------------------------------------------------------------------------
(* Properties *)
Revoked(sessionId) == sessions[sessionId].revokedAt # NoDate

\* the call that has just returned is a refreshTokens call whose token verified
VerifiedRefresh == last.op = "refresh" /\ last.outcome \notin {"NO_CALL", "INVALID_TOKEN"}

\* the presented token was, when the call started, the one valid token of a live session
PresentedFresh == last.pre.live /\ last.pre.current /\ ~last.pre.inLedger

TokensOf(sessionId) == {t \in issued : t.payload.sessionId = sessionId}

\* C1 - single-use refresh: in a sequential history the first refreshTokens
\* call that presents the valid token of a live session succeeds, no token is
\* refreshed twice, and a call that presents an already refreshed token fails
\* with TOKEN_REVOKED or TOKEN_REUSE_DETECTED.
C1_SingleUseRefresh ==
    ~everOverlap =>
        /\ \A j \in DOMAIN okCount : okCount[j] <= 1
        /\ VerifiedRefresh =>
             IF last.pre.spent
             THEN last.outcome \in {"TOKEN_REVOKED", "TOKEN_REUSE_DETECTED"}
             ELSE PresentedFresh => last.outcome = "ok"

\* C2 - concurrent refresh: whatever the interleaving of the store calls, at
\* most one refreshTokens call presenting a given token returns new tokens.
C2_AtMostOneWinner == \A j \in DOMAIN okCount : okCount[j] <= 1

\* C3 - reuse containment: when a refreshTokens call whose token verified
\* presented a jti that was not the currentRefreshJti of its existing session,
\* the session is revoked once the call has returned; and a call that starts
\* on a revoked session fails.
C3_ReuseContainment ==
    (~everOverlap /\ VerifiedRefresh /\ last.pre.known) =>
        /\ ~last.pre.current => Revoked(last.sessionId)
        /\ ~last.pre.live => last.outcome # "ok"

\* C4 - replay scenario: once refreshTokens(T0) has succeeded, the next
\* refreshTokens(T0) is answered 401 TOKEN_REUSE_DETECTED (and kills the
\* session), and calls on the then revoked session are refused with
\* SESSION_REVOKED or TOKEN_REVOKED.
C4_ReplayIsReuseDetected ==
    (~everOverlap /\ VerifiedRefresh) =>
        /\ (last.pre.spent /\ last.pre.live) =>
              /\ RefreshRespond(last.outcome) =
                   Http(401, "TOKEN_REUSE_DETECTED", "Token reuse detected - session revoked")
              /\ Revoked(last.sessionId)
        /\ (last.pre.known /\ ~last.pre.live) =>
              last.outcome \in {"SESSION_REVOKED", "TOKEN_REVOKED"}

\* C5 - rotation monotonicity: in a sequential history, when a refreshTokens
\* call has just succeeded, the session's currentRefreshJti is the jti of the
\* refresh token it returned, and the jti of every other refresh token ever
\* issued for that session is in the ledger.
C5_RotationMonotonicity ==
    (~everOverlap /\ last.op = "refresh" /\ last.outcome = "ok") =>
        /\ sessions[last.sessionId].currentRefreshJti = last.newJti
        /\ \E t \in TokensOf(last.sessionId) : t.payload.jti = last.newJti
        /\ \A t \in TokensOf(last.sessionId) :
              t.payload.jti # last.newJti => t.payload.jti \in ledger

\* two refreshes in a row have succeeded on one session
C5_Witness ==
    /\ ~everOverlap /\ last.op = "refresh" /\ last.outcome = "ok"
    /\ Cardinality(TokensOf(last.sessionId)) = 3
    /\ sessions[last.sessionId].currentRefreshJti = last.newJti

\* C6 - REVOKED is terminal: under any interleaving no step clears a
\* revocation timestamp, and a refreshTokens call that started when its
\* session was already revoked does not succeed.
C6_RevokedIsTerminal ==
    /\ [][\A i \in DOMAIN sessions : Revoked(i) => sessions'[i].revokedAt # NoDate]_vars
    /\ [](VerifiedRefresh /\ last.pre.known /\ ~last.pre.live => last.outcome # "ok")

\* a refresh with a token that is not in the ledger was refused because its
\* session is revoked
C6_Witness ==
    /\ last.op = "refresh" /\ last.outcome = "SESSION_REVOKED"
    /\ last.pre.known /\ ~last.pre.live /\ ~last.pre.inLedger
    /\ Revoked(last.sessionId)

\* C7 - logout: when logout has returned for an existing session, under any
\* interleaving, the session is revoked and the currentRefreshJti that logout
\* read is in the ledger; a refreshTokens call that starts after a logout of
\* its session has returned fails.
C7_LogoutRevokes ==
    /\ (last.op \in {"logout", "logoutWithToken"} /\ last.pre.known) =>
          /\ last.outcome = "ok"
          /\ Revoked(last.sessionId)
          /\ last.sessionJti \in ledger
    /\ (VerifiedRefresh /\ last.pre.loggedOut) => last.outcome # "ok"

\* the session's latest refresh token is refused after a logout
C7_Witness ==
    /\ last.op = "refresh" /\ last.pre.loggedOut /\ last.pre.current
    /\ last.outcome = "TOKEN_REVOKED"
    /\ Revoked(last.sessionId)
    /\ sessions[last.sessionId].currentRefreshJti \in ledger

SessionStatus == [i \in DOMAIN sessions |-> Revoked(i)]

\* C8 - idempotent logout: logout never throws, for a known, an already
\* logged out or an unknown session id; and in a sequential history the steps
\* of a logout of a session that has been logged out before change neither
\* the revoked/active status of any session nor the ledger.
C8_IdempotentLogout ==
    /\ [](last.op = "logout" /\ last.outcome # "NO_CALL" => last.outcome = "ok")
    /\ [][\A p \in Procs :
            (/\ ~everOverlap
             /\ pc[p] \in {"o_revokeSession", "o_revokeJti"} /\ pc'[p] # pc[p]
             /\ loc[p].pre.loggedOut)
            => (SessionStatus' = SessionStatus /\ ledger' = ledger)]_vars

\* a second logout of the same session has returned
C8_Witness ==
    /\ ~everOverlap /\ last.op = "logout" /\ last.pre.loggedOut /\ last.outcome = "ok"
    /\ Revoked(last.sessionId)

\* C9 - credential failures are indistinguishable: a login refused for an
\* unknown e-mail and a login refused for a wrong password both fail with the
\* error INVALID_CREDENTIALS and get the same answer from POST /auth/login.
C9_SameCredentialFailure ==
    (last.op = "login" /\ last.cause \in {"unknownEmail", "wrongPassword"}) =>
        /\ last.outcome = "INVALID_CREDENTIALS"
        /\ LoginRespond(last.outcome) =
             Http(401, "INVALID_CREDENTIALS", "Invalid email or password")

\* a login with an e-mail that has no identity has been refused
C9_Witness ==
    /\ last.op = "login" /\ last.cause = "unknownEmail"
    /\ LoginRespond(last.outcome).status = 401

\* C10 - token typing: for every configuration, verifyRefreshToken rejects an
\* access token and verifyAccessToken rejects a refresh token, each time with
\* the error INVALID_TOKEN.
C10_TokenTyping ==
    /\ probe.token.payload.type = "access" =>
          ~probe.asRefresh.ok /\ probe.asRefresh.error = "INVALID_TOKEN"
    /\ probe.token.payload.type = "refresh" =>
          ~probe.asAccess.ok /\ probe.asAccess.error = "INVALID_TOKEN"

\* C11 - expired refresh token: a refreshTokens call whose token is correctly
\* signed but expired fails with TOKEN_EXPIRED, and POST /auth/refresh answers
\* 401 TOKEN_EXPIRED.
C11_ExpiredIsTokenExpired ==
    (last.op = "refresh" /\ last.cause = "TOKEN_EXPIRED") =>
        /\ last.outcome = "TOKEN_EXPIRED"
        /\ RefreshRespond(last.outcome) = Http(401, "TOKEN_EXPIRED", "Refresh token expired")

\* C12 - identity loaded afresh by id: for every refresh token handed out to
\* an identity of the users table, the lookup of refreshTokens finds that
\* identity, so no refresh fails with USER_NOT_FOUND.
C12_RefreshFindsIdentity ==
    /\ \A t \in issued : RefreshLookup(t.payload).id = t.payload.sub
    /\ last.op = "refresh" => last.outcome # "USER_NOT_FOUND"

\* C13 - login creates one session: the step that completes a successful
\* loginWithPassword adds exactly one session row and changes no other; the
\* new row belongs to the authenticated identity, has no revocation timestamp
\* and holds a jti no token, session or ledger entry had before; the refresh
\* token returned embeds the id of that row and that jti.
C13_LoginCreatesSession ==
    [][\A p \in Procs :
         (pc[p] = "l_create" /\ pc'[p] = "idle") =>
            /\ last'.op = "login" /\ last'.outcome = "ok"
            /\ Cardinality(DOMAIN sessions' \ DOMAIN sessions) = 1
            /\ \A i \in DOMAIN sessions : sessions'[i] = sessions[i]
            /\ LET id == CHOOSE i \in DOMAIN sessions' \ DOMAIN sessions : TRUE
                   jti == last'.newJti
               IN /\ sessions'[id].userId = loc[p].user.id
                  /\ loc[p].user \in Users
                  /\ sessions'[id].revokedAt = NoDate
                  /\ sessions'[id].currentRefreshJti = jti
                  /\ jti \notin ledger
                  /\ \A t \in issued : t.payload.jti # jti
                  /\ \A i \in DOMAIN sessions : sessions[i].currentRefreshJti # jti
                  /\ \E t \in issued' \ issued :
                        /\ t.payload.type = "refresh"
                        /\ t.payload.sub = loc[p].user.id
                        /\ t.payload.sessionId = id
                        /\ t.payload.jti = jti
                  /\ Cardinality(issued' \ issued) = 1]_vars

\* a login has just returned the refresh token of the session it created
C13_Witness ==
    /\ last.op = "login" /\ last.outcome = "ok"
    /\ last.sessionId \in DOMAIN sessions
    /\ sessions[last.sessionId].revokedAt = NoDate
    /\ sessions[last.sessionId].currentRefreshJti = last.newJti
    /\ \E t \in issued : t.payload.sessionId = last.sessionId /\ t.payload.jti = last.newJti

\* C14 - answers of POST /auth/logout as routed: every request is answered
\* 200 {success: true} or 400 BAD_REQUEST, 400 only when the body carries
\* neither a sessionId nor a refreshToken.
C14_LogoutAnswers ==
    last.op \in {"requireAuth", "logout", "logoutWithToken"} =>
        LET r == LogoutRouteRespond(last) IN
        IF last.op # "requireAuth" /\ last.outcome = "NO_CALL"
        THEN r.status = 400 /\ r.code = "BAD_REQUEST"
        ELSE r = Http(200, "OK", "success")

\* C15 - logout does not reveal whether a session exists: whatever the stores
\* hold for the session named in a well-formed body (no such session, an
\* active one, a revoked one), and also when the store call throws, the
\* logout handler gives the same answer, 200 {success: true}.
C15_LogoutRevealsNothing ==
    (last.op \in {"logout", "logoutWithToken", "logoutCatch"} /\ last.outcome # "NO_CALL") =>
        LogoutRespond(last.outcome) = Http(200, "OK", "success")

\* a logout naming a session that does not exist, while another does, was answered
C15_Witness ==
    /\ last.op = "logout" /\ ~last.pre.known
    /\ last.sessionId \notin DOMAIN sessions /\ DOMAIN sessions # {}
    /\ LogoutRespond(last.outcome).status = 200

\* the errors refreshTokens throws, and TOKEN_EXPIRED of the token service
RefreshErrorKinds ==
    {"TOKEN_EXPIRED", "INVALID_TOKEN", "TOKEN_REVOKED", "SESSION_REVOKED",
     "SESSION_NOT_FOUND", "TOKEN_REUSE_DETECTED", "USER_NOT_FOUND"}

\* C16 - distinct error codes: when a refresh has failed with one of the
\* error kinds, the code POST /auth/refresh answers is the answer to no other
\* kind.
C16_DistinctRefreshCodes ==
    (last.op = "refresh" /\ last.outcome \in RefreshErrorKinds) =>
        \A k \in RefreshErrorKinds \ {last.outcome} :
            RefreshRespond(k).code # RefreshRespond(last.outcome).code

\* C17 - three failures of verification: verifyAccessToken and
\* verifyRefreshToken throw TOKEN_EXPIRED for a token signed with their secret
\* that has expired, INVALID_TOKEN for a malformed token or one signed with
\* another key, and 'Invalid token type' for an unexpired token signed with
\* their secret that is of the other type; they return for no such token.
C17_ThreeVerifyFailures ==
    LET Class(secret, type) ==
            IF probe.token = Malformed \/ probe.token.key # secret THEN "invalid"
            ELSE IF probe.at >= probe.token.exp THEN "expired"
            ELSE IF probe.token.payload.type # type THEN "wrongType"
            ELSE "valid"
        Expected(class) ==
            CASE class = "expired"   -> Thrown("TOKEN_EXPIRED")
              [] class = "invalid"   -> Thrown("INVALID_TOKEN")
              [] class = "wrongType" -> Thrown("Invalid token type")
              [] OTHER               -> Returned(probe.token.payload)
    IN probe # NoProbe =>
          /\ probe.asAccess = Expected(Class(tsConfig.accessSecret, "access"))
          /\ probe.asRefresh = Expected(Class(tsConfig.refreshSecret, "refresh"))

\* an unexpired refresh token signed with the access secret went to verifyAccessToken
C17_Witness ==
    /\ probe.token.payload.type = "refresh"
    /\ probe.token.key = tsConfig.accessSecret /\ probe.at < probe.token.exp
    /\ probe.asAccess = Thrown("Invalid token type")
    /\ probe.asRefresh.ok

\* C18 - the ledger only grows: no step of login, refresh or logout, in any
\* interleaving, takes a jti out of the ledger, so isRevoked stays true; and
\* a revoke of a jti that is already in the ledger leaves the ledger as it is
\* and the call goes on to return.
C18_LedgerAppendOnly ==
    /\ [][\A j \in 1..(MaxJti + 1) : IsRevoked(ledger, j) => IsRevoked(ledger', j)]_vars
    /\ [][\A p \in Procs :
            (/\ pc[p] = "o_revokeJti" /\ pc'[p] # pc[p]
             /\ IsRevoked(ledger, loc[p].session.currentRefreshJti))
            => (ledger' = ledger /\ last'.outcome = "ok")]_vars
    /\ [](\A j \in ledger : RevocationRevoke(ledger, j) = ledger)

\* a logout by token has revoked again a jti that was already in the ledger
C18_Witness ==
    /\ last.op = "logoutWithToken" /\ last.outcome = "ok"
    /\ last.pre.known /\ last.pre.current /\ last.pre.inLedger
    /\ last.jti \in ledger

\* C19 - revocation is set once: no step changes the revocation timestamp of
\* a session that is already revoked.
C19_RevokedAtSetOnce ==
    [][\A i \in DOMAIN sessions :
         Revoked(i) => sessions'[i].revokedAt = sessions[i].revokedAt]_vars

C21_SecretsDiffer == tsConfig.accessSecret # tsConfig.refreshSecret

\* hashes an identity can have in the users table
HashInputs == {Hash(w) : w \in PasswordInputs}

LoginMapped == {"INVALID_CREDENTIALS"}
RefreshMapped ==
    {"TOKEN_EXPIRED", "TOKEN_REVOKED", "SESSION_REVOKED", "TOKEN_REUSE_DETECTED",
     "INVALID_TOKEN"}

\* C24 - generic answer: a login or refresh that ended with an error other
\* than the ones the handler maps (a rejected store call, an unmapped error
\* of the service) is answered 400 BAD_REQUEST with the handler's fixed
\* message, which is not the message of the error.
C24_GenericBadRequest ==
    /\ (/\ last.op \in {"login", "loginCatch"}
        /\ last.outcome \notin LoginMapped \cup {"ok", "NO_CALL"})
       => /\ LoginRespond(last.outcome) = Http(400, "BAD_REQUEST", "Authentication failed")
          /\ LoginRespond(last.outcome).message # last.outcome
    /\ (/\ last.op \in {"refresh", "refreshCatch"}
        /\ last.outcome \notin RefreshMapped \cup {"ok", "NO_CALL"})
       => /\ RefreshRespond(last.outcome) = Http(400, "BAD_REQUEST", "Token refresh failed")
          /\ RefreshRespond(last.outcome).message # last.outcome

\* a refresh whose store call was rejected has been answered
C24_Witness ==
    /\ last.op = "refreshCatch" /\ last.outcome = StoreError
    /\ RefreshRespond(last.outcome).status = 400

\* C25 - logoutWithToken swallows verification failures: the call made with
\* a refresh token that does not verify (expired, malformed, wrong signature,
\* wrong type) returns normally, and its step changes no session and leaves
\* the ledger as it is.
C25_LogoutWithBadToken ==
    [][(/\ last'.op = "logoutWithToken"
        /\ last'.cause \in {"TOKEN_EXPIRED", "INVALID_TOKEN", "Invalid token type"})
       => (last'.outcome = "ok" /\ sessions' = sessions /\ ledger' = ledger)]_vars

\* logoutWithToken has returned for an expired token while its session is active
C25_Witness ==
    /\ last.op = "logoutWithToken" /\ last.cause = "TOKEN_EXPIRED" /\ last.outcome = "ok"
    /\ \E i \in DOMAIN sessions : ~Revoked(i)

\* the most store calls a handler at the given position still has to see
\* return (the users lookup of a refresh follows the session read at once)
StoreCallsLeft(at) ==
    CASE at = "idle" -> 0
      [] at = "l_create" -> 1
      [] at = "r_get" -> 4
      [] at = "r_reuseRevokeSession" -> 2
      [] at = "r_reuseRevokeJti" -> 1
      [] at = "r_revokeOld" -> 3
      [] at = "r_setRefreshJti" -> 2
      [] at = "r_return" -> 1
      [] at = "o_revokeSession" -> 2
      [] at = "o_revokeJti" -> 1

\* C26 - termination: a call that has started makes at most four more store
\* calls (five in all, for a refresh), each step of a
\* handler lowers the number of store calls it can still make, a step that
\* leaves none returns or throws, and a handler in flight can always take
\* its next step once its store call has returned, whatever the other
\* handler is doing.
C26_Terminates ==
    /\ [](\A p \in Procs : StoreCallsLeft(pc[p]) \in 0..4)
    /\ [][\A p \in Procs : pc'[p] # pc[p] /\ pc[p] # "idle" =>
              StoreCallsLeft(pc'[p]) < StoreCallsLeft(pc[p])]_vars
    /\ [](\A p \in Procs : pc[p] # "idle" => ENABLED Resume(p))

\* a refresh that lost a race has gone through reuse detection and returned
C26_Witness ==
    /\ everOverlap
    /\ last.op = "refresh" /\ last.outcome = "TOKEN_REUSE_DETECTED"
    /\ \E p \in Procs : pc[p] # "idle"

\* C27 - validateNIN: in strict mode the result is valid exactly for a string
\* of 13 digits whose first digit is 1 or 2, whose digits 4-5 are a month
\* 01..12 and whose age (current year minus getFullYear of digits 2-3) is
\* 14..90; otherwise the code is that of the first check that fails, in the
\* order REQUIRED, TYPE, LENGTH, FORMAT, SEX_CODE, MONTH, YEAR, TOO_YOUNG,
\* TOO_OLD; in non-strict mode the result is valid, with no data, exactly for
\* a string of 13 digits.
C27_ValidateNIN ==
    ninCall.fn = "validateNIN" =>
        LET nin == ninCall.nin
            r == ninCall.result
            s == nin.chars
            absent == nin.type = "undefined" \/ nin = Str(<< >>) \/ nin = Num(0)
            thirteenDigits ==
                /\ nin.type = "string" /\ Len(s) = 13
                /\ \A i \in 1..Len(s) : s[i] \in {Digits[k] : k \in 1..10}
            sexOk == s[1] \in {"1", "2"}
            monthOk == 10 * DigitValue(s[4]) + DigitValue(s[5]) \in 1..12
            born == getFullYear(SubSeq(s, 2, 3), ninCall.clock[1])
            age == ninCall.clock[2] - born
            firstFailing ==
                IF absent THEN "NIN_REQUIRED"
                ELSE IF nin.type # "string" THEN "NIN_INVALID_TYPE"
                ELSE IF Len(s) # 13 THEN "NIN_INVALID_LENGTH"
                ELSE IF ~thirteenDigits THEN "NIN_INVALID_FORMAT"
                ELSE IF ~sexOk THEN "NIN_INVALID_SEX_CODE"
                ELSE IF ~monthOk THEN "NIN_INVALID_MONTH"
                ELSE IF born > ninCall.clock[2] THEN "NIN_INVALID_YEAR"
                ELSE IF age < 14 THEN "NIN_AGE_TOO_YOUNG"
                ELSE IF age > 90 THEN "NIN_AGE_TOO_OLD"
                ELSE "none"
        IN IF ninCall.strict
           THEN /\ r.valid <=> (thirteenDigits /\ sexOk /\ monthOk /\ age \in 14..90)
                /\ ~r.valid => r.code = firstFailing
           ELSE (r.valid /\ r.data = NoData) <=> thirteenDigits

\* a woman of exactly 14, validated while the year changes
C27_Witness ==
    /\ ninCall.fn = "validateNIN" /\ ninCall.strict
    /\ ninCall.result.valid
    /\ ninCall.result.data.age = 14 /\ ninCall.result.data.sex = "FEMALE"
    /\ ninCall.result.data.birthMonth = 9
    /\ ninCall.clock[1] # ninCall.clock[2]

\* C28 - getFullYear: for a current year in 2000..2099 and any two-digit
\* code the result is 2000+code when code <= current year mod 100 and
\* 1900+code otherwise, which is never after the current year; and a NIN that
\* is well formed but for carrying next year's code is rejected with
\* NIN_INVALID_YEAR or NIN_AGE_TOO_OLD.
C28_GetFullYear ==
    /\ (ninCall.fn = "getFullYear" /\ ninCall.clock \in 2000..2099) =>
          LET code == 10 * DigitValue(ninCall.yearCode[1]) + DigitValue(ninCall.yearCode[2])
          IN /\ ninCall.result =
                   IF code <= ninCall.clock % 100 THEN 2000 + code ELSE 1900 + code
             /\ ninCall.result <= ninCall.clock
    /\ (/\ ninCall.fn = "validateNIN" /\ ninCall.strict
        /\ ninCall.clock[1] \in 2000..2099 /\ ninCall.clock[2] \in 2000..2099
        /\ ninCall.nin \in NinsNear(ninCall.clock[2])
        /\ ninCall.nin.chars[1] \in {"1", "2"}
        /\ SubSeq(ninCall.nin.chars, 4, 5) \in VALID_MONTHS
        /\ \E y \in {ninCall.clock[1], ninCall.clock[2]} :
              SubSeq(ninCall.nin.chars, 2, 3)
                 = <<Digits[(((y + 1) % 100) \div 10) + 1], Digits[((y + 1) % 10) + 1]>>)
       => (/\ ~ninCall.result.valid
           /\ ninCall.result.code \in {"NIN_INVALID_YEAR", "NIN_AGE_TOO_OLD"})

\* in 2026 a NIN with year code 27 is taken for 1927 and refused as too old
C28_Witness ==
    /\ ninCall.fn = "validateNIN" /\ ninCall.strict
    /\ ninCall.clock = <<2026, 2026>>
    /\ ninCall.result.code = "NIN_AGE_TOO_OLD"
    /\ SubSeq(ninCall.nin.chars, 1, 5) = <<"1", "2", "7", "1", "2">>

\* the generated NIN of a call with a birth year, and the age that year gives
GeneratedFor(sex, age) ==
    /\ ninCall.fn = "generateRandomNIN"
    /\ ninCall.sex = sex
    /\ ninCall.birthYear # NoBirthYear
    /\ ninCall.clock[2] - ninCall.birthYear = age

RoundTrip ==
    /\ ninCall.result.valid
    /\ ninCall.result.data.sex = ninCall.sex
    /\ ninCall.result.data.birthYear = ninCall.birthYear

\* C29 as stated - for a birth year whose age is 14..90 the generated NIN is
\* valid and gives back the sex and the birth year, in any current year.
C29_RoundTripAnyYear ==
    \A sex \in {"MALE", "FEMALE"}, age \in 14..90 : GeneratedFor(sex, age) => RoundTrip

\* C29 - for a birth year whose age is 14..90 the generated NIN is valid and
\* gives back the sex and the birth year, whatever month and unique number
\* are drawn, when the current year is in 2000..2099.
C29_RoundTrip ==
    \A sex \in {"MALE", "FEMALE"}, age \in 14..90 :
        (/\ GeneratedFor(sex, age)
         /\ ninCall.clock[1] \in 2000..2099 /\ ninCall.clock[2] \in 2000..2099)
           => RoundTrip

\* a woman born in 1936 is 90 in 2026 and her generated NIN is valid
C29_Witness ==
    /\ GeneratedFor("FEMALE", 90)
    /\ ninCall.clock = <<2026, 2026>>
    /\ ninCall.draw.month = 12 /\ ninCall.draw.unique = 0
    /\ RoundTrip /\ ninCall.result.data.age = 90

\* C30 - the NIN generated without a birth year is valid in strict mode for
\* every value of the draws (stated for the years 2000..2099 of the clock).
C30_RandomAlwaysValid ==
    (/\ ninCall.fn = "generateRandomNIN" /\ ninCall.birthYear = NoBirthYear
     /\ ninCall.clock[1] = ninCall.clock[2] /\ ninCall.clock[2] \in 2000..2099)
       => ninCall.result.valid

\* C31 - maskNIN: for a string of 13 characters and visibleChars v in 0..11
\* the result has 13 characters: the first v of the input, then 11-v
\* asterisks, then the last two of the input; a non-string or empty input
\* gives the empty string; a string of another length is returned unchanged.
C31_MaskNIN ==
    ninCall.fn = "maskNIN" =>
        LET nin == ninCall.nin
            v == ninCall.visibleChars
            out == ninCall.result.value
        IN /\ (nin.type # "string" \/ nin.chars = << >>) =>
                 ninCall.result = Masked(<< >>)
           /\ (nin.type = "string" /\ Len(nin.chars) \notin {0, 13}) =>
                 ninCall.result = Masked(nin.chars)
           /\ (nin.type = "string" /\ Len(nin.chars) = 13 /\ v \in 0..11) =>
                 /\ ninCall.result.thrown = "none"
                 /\ Len(out) = 13
                 /\ \A i \in 1..13 :
                       out[i] = IF i <= v \/ i >= 12 THEN nin.chars[i] ELSE "*"

\* three characters left visible: 195********78
C31_Witness ==
    /\ ninCall.fn = "maskNIN" /\ ninCall.visibleChars = 3
    /\ ninCall.result.value =
          <<"1", "9", "5", "*", "*", "*", "*", "*", "*", "*", "*", "7", "8">>

\* C32 - when a refreshTokens call returns new tokens, the new refresh
\* token's jti is the currentRefreshJti of its session and is not in the
\* ledger, and the presented token's jti is in the ledger, also when other
\* refresh calls on the same session are in flight (stated for sessions that
\* nothing has revoked, so that only refresh calls have written the row).
C32_ReturnedTokenIsCurrent ==
    (/\ last.op = "refresh" /\ last.outcome = "ok"
     /\ last.sessionId \in DOMAIN sessions /\ ~Revoked(last.sessionId)) =>
        /\ sessions[last.sessionId].currentRefreshJti = last.newJti
        /\ ~IsRevoked(ledger, last.newJti)
        /\ IsRevoked(ledger, last.jti)
        /\ \E t \in issued : t.payload.jti = last.newJti /\ t.payload.sessionId = last.sessionId

\* C33 - consumed before the identity is loaded: in a sequential history a
\* refreshTokens call that has failed with USER_NOT_FOUND has put the jti of
\* the presented token in the ledger.
C33_UserNotFoundConsumes ==
    (~everOverlap /\ last.op = "refresh" /\ last.outcome = "USER_NOT_FOUND") =>
        IsRevoked(ledger, last.jti)

\* C34 - order of the checks of refreshTokens: a token that does not verify
\* fails INVALID_TOKEN; a verified token whose jti is in the ledger fails
\* TOKEN_REVOKED in the step that read the ledger, whatever its session is,
\* with no session read or written; otherwise the row read decides, in the
\* order SESSION_NOT_FOUND, SESSION_REVOKED, reuse detection.
C34_OrderOfChecks ==
    /\ []((last.op = "refresh" /\ last.cause # "none") => last.outcome = "INVALID_TOKEN")
    /\ [][(last'.op = "refresh" /\ last'.pre.inLedger) =>
             /\ last'.outcome = "TOKEN_REVOKED"
             /\ UNCHANGED <<sessions, ledger, pc, loc>>]_vars
    /\ [][\A p \in Procs :
             (pc[p] = "r_get" /\ pc'[p] # "r_get") =>
                LET row == SessionGet(sessions, loc[p].sessionId) IN
                IF row = NoSession
                THEN pc'[p] = "idle" /\ last'.outcome = "SESSION_NOT_FOUND"
                ELSE IF row.revokedAt # NoDate
                THEN pc'[p] = "idle" /\ last'.outcome = "SESSION_REVOKED"
                ELSE IF row.currentRefreshJti # loc[p].payload.jti
                THEN pc'[p] = "r_reuseRevokeSession"
                ELSE last'.outcome \notin {"SESSION_NOT_FOUND", "SESSION_REVOKED",
                                           "TOKEN_REVOKED", "TOKEN_REUSE_DETECTED"}]_vars
    /\ [][\A p \in Procs :
             (pc[p] = "r_reuseRevokeJti" /\ pc'[p] = "idle") =>
                last'.outcome = "TOKEN_REUSE_DETECTED"]_vars

\* the token of a session that was logged out: its jti is in the ledger and
\* its session is revoked, and the answer is TOKEN_REVOKED
C34_Witness ==
    /\ last.op = "refresh" /\ last.outcome = "TOKEN_REVOKED"
    /\ last.pre.known /\ ~last.pre.live /\ last.pre.inLedger

\* C35 - a loginWithPassword that fails INVALID_CREDENTIALS and a
\* refreshTokens that fails INVALID_TOKEN, TOKEN_REVOKED, SESSION_NOT_FOUND,
\* SESSION_REVOKED or USER_NOT_FOUND writes nothing: the step in which it
\* answers, and for a refresh the steps before it (the ledger read and the
\* session read), leave all sessions and the ledger as they were.
C35_FailingCallChangesNothing ==
    /\ [][(last' # last /\ last'.op \in {"login", "refresh"}
                        /\ last'.outcome \in {"INVALID_CREDENTIALS", "INVALID_TOKEN",
                                              "TOKEN_REVOKED", "SESSION_NOT_FOUND",
                                              "SESSION_REVOKED", "USER_NOT_FOUND"}) =>
             UNCHANGED <<sessions, ledger>>]_vars
    /\ [][\A p \in Procs :
             ((pc[p] = "idle" /\ pc'[p] = "r_get") \/ (pc[p] = "r_get" /\ pc'[p] # "r_get")) =>
                UNCHANGED <<sessions, ledger>>]_vars

\* a refresh that failed on the user lookup, with the session and its token
\* as the login left them and nothing in the ledger
C35_Witness ==
    /\ last.op = "refresh" /\ last.outcome = "USER_NOT_FOUND"
    /\ last.sessionId \in DOMAIN sessions
    /\ sessions[last.sessionId].currentRefreshJti = last.jti
    /\ sessions[last.sessionId].revokedAt = NoDate
    /\ ledger = {}

\* C36 - session isolation: a step of a login, a refresh, a reuse detection
\* or a logout leaves the currentRefreshJti and the revokedAt of every
\* session other than the one it concerns as they were, other sessions of
\* the same user included.
C36_SessionIsolation ==
    [][LET moved == {p \in Procs : pc'[p] # pc[p]}
           concerned == IF \E p \in moved : pc[p] # "idle"
                        THEN loc[CHOOSE p \in moved : pc[p] # "idle"].sessionId
                        ELSE IF moved # {}
                        THEN loc'[CHOOSE p \in moved : TRUE].sessionId
                        ELSE last'.sessionId
       IN \A s \in DOMAIN sessions :
             s # concerned =>
                /\ s \in DOMAIN sessions'
                /\ sessions'[s].currentRefreshJti = sessions[s].currentRefreshJti
                /\ sessions'[s].revokedAt = sessions[s].revokedAt]_vars

\* reuse was detected on one session while another session of the same user
\* stays active with the jti its login gave it
C36_Witness ==
    /\ last.op = "refresh" /\ last.outcome = "TOKEN_REUSE_DETECTED"
    /\ \E s \in DOMAIN sessions :
          /\ s # last.sessionId
          /\ last.sessionId \in DOMAIN sessions
          /\ sessions[s].userId = sessions[last.sessionId].userId
          /\ sessions[last.sessionId].revokedAt # NoDate
          /\ sessions[s].revokedAt = NoDate
          /\ ~IsRevoked(ledger, sessions[s].currentRefreshJti)

C38_RotationAtomic ==
    (/\ ~everOverlap
     /\ last.op = "refresh" /\ last.outcome = StoreError
     /\ last.sessionId \in DOMAIN sessions
     /\ sessions[last.sessionId].revokedAt = NoDate) =>
        ~IsRevoked(ledger, sessions[last.sessionId].currentRefreshJti)

\* C39 - logoutWithToken ends the session named in any refresh token that
\* verifies, whether or not the token's jti is in the ledger or is the
\* session's current one; the jti it writes to the ledger is the
\* currentRefreshJti of the session row it read, not the presented jti.
C39_LogoutWithToken ==
    /\ []((last.op = "logoutWithToken" /\ last.cause = "none" /\ last.pre.known) =>
             /\ sessions[last.sessionId].revokedAt # NoDate
             /\ last.sessionJti # 0 => IsRevoked(ledger, last.sessionJti))
    /\ [][\A p \in Procs :
             (pc[p] = "idle" /\ pc'[p] = "o_revokeSession") =>
                loc'[p].session = sessions[loc'[p].sessionId]]_vars
    /\ [][\A p \in Procs :
             (pc[p] = "o_revokeJti" /\ loc[p].op = "logoutWithToken" /\ pc'[p] = "idle") =>
                ledger' = ledger \cup {loc[p].session.currentRefreshJti}]_vars

\* the token presented was rotated away before: its jti was in the ledger
\* and was not the session's; the session is ended and the ledger has
\* received the jti that was current
C39_Witness ==
    /\ last.op = "logoutWithToken" /\ last.cause = "none"
    /\ last.pre.known /\ last.pre.live /\ last.pre.inLedger /\ ~last.pre.current
    /\ last.sessionJti # last.jti
    /\ sessions[last.sessionId].revokedAt # NoDate
    /\ IsRevoked(ledger, last.sessionJti)

\* C40 - the authorization middlewares answer 401 when the request has no
\* authenticated user; otherwise they call next exactly when the user holds
\* one of the listed roles (requireRole), one of the listed permissions
\* (requirePermission) or all listed permissions (requireAllPermissions) and
\* answer 403 otherwise; with an empty list the first two answer 403 and
\* requireAllPermissions calls next.
C40_Authorization ==
    "mw" \in DOMAIN probe =>
        LET run == probe.run
            user == probe.user
            listed == {probe.listed[i] : i \in DOMAIN probe.listed}
            allowed == IF probe.mw = "requireRole" THEN listed \cap user.roleIds # {}
                       ELSE IF probe.mw = "requirePermission"
                       THEN listed \cap user.permissions # {}
                       ELSE listed \subseteq user.permissions
        IN /\ run.sent + run.nexts = 1
           /\ run.sent = 1 <=> run.answer.status \in {401, 403}
           /\ user = NoReqUser =>
                 run.answer = Http(401, "Unauthorized", "Authentication required")
           /\ (user # NoReqUser /\ allowed) => (run.nexts = 1 /\ run.answer = PassedOn)
           /\ (user # NoReqUser /\ ~allowed) =>
                 run.answer = Http(403, "Forbidden", "Insufficient permissions")
           /\ (user # NoReqUser /\ probe.listed = << >>) =>
                 IF probe.mw = "requireAllPermissions" THEN run.nexts = 1
                 ELSE run.answer.status = 403

\* requireAllPermissions with an empty list lets through a user that has
\* no permission at all
C40_Witness ==
    /\ "mw" \in DOMAIN probe
    /\ probe.mw = "requireAllPermissions" /\ probe.listed = << >>
    /\ probe.user # NoReqUser /\ probe.user.permissions = {}
    /\ probe.run.nexts = 1

====
